---------------------------- MODULE Spec2Model ----------------------------
(***************************************************************************)
(* Model of the vocabulary data transformer (lib/dataTransformer.js):      *)
(* transformVocabData, parseTopics, parseWord, calculateStatistics,         *)
(* calculateTopicStatistics and the cell helpers.                           *)
(*                                                                         *)
(* Conventions.                                                            *)
(*  - A JavaScript string is a sequence of one-character strings.          *)
(*  - A cell is a tagged scalar: null, string, number or boolean.          *)
(*  - An optional value (null / undefined / absent field) is a sequence    *)
(*    of length 0 (None) or 1 (Some(v)).                                    *)
(*  - Loop indices keep the source's 0-based values; TLA+ sequences are    *)
(*    1-based, so rows[i] of the source is rows[i + 1] here.               *)
(***************************************************************************)
EXTENDS Integers, Sequences, FiniteSets, TLC

VARIABLES
    excelData,      \* the argument of transformVocabData (None when absent)
    result,         \* the document under construction / returned
    w,              \* forEach index into excelData.worksheets (0-based)
    rows,           \* parseTopics: the values grid being parsed
    i,              \* parseTopics: loop index (0-based)
    topics,         \* parseTopics: output sequence
    currentTopic,   \* parseTopics: the open topic (None when null)
    pc,             \* position in transformVocabData
    other,          \* a second call of transformVocabData: its own
                    \* excelData, result, w, rows, i, topics,
                    \* currentTopic and pc, as a record
    server          \* server.js: serverState, the state store, the cache,
                    \* the requests in progress and the last response

vars == <<excelData, result, w, rows, i, topics, currentTopic, pc, other, server>>

None == <<>>
Some(v) == <<v>>
IsSome(o) == Len(o) = 1
Val(o) == o[1]

(***************************************************************************)
(* Bounds                                                                  *)
(***************************************************************************)
MaxRows == 3        \* longest values grid drawn in Init

(***************************************************************************)
(* Cells and strings                                                       *)
(***************************************************************************)
Null == [type |-> "null"]
Str(s) == [type |-> "string", str |-> s]
Num(n) == [type |-> "number", num |-> n]
Bool(b) == [type |-> "boolean", bool |-> b]

Whitespace == {" ", "\t", "\n"}

UpperChars == <<"A","B","C","D","E","F","G","H","I","J","K","L","M",
                "N","O","P","Q","R","S","T","U","V","W","X","Y","Z">>
LowerChars == <<"a","b","c","d","e","f","g","h","i","j","k","l","m",
                "n","o","p","q","r","s","t","u","v","w","x","y","z">>

\* String.prototype.toLowerCase on one character
LowerChar(c) ==
    IF \E k \in 1..Len(UpperChars) : UpperChars[k] = c
    THEN LowerChars[CHOOSE k \in 1..Len(UpperChars) : UpperChars[k] = c]
    ELSE c

\* String.prototype.toLowerCase
ToLowerCase(s) == [k \in 1..Len(s) |-> LowerChar(s[k])]

\* String.prototype.trim: drop leading and trailing whitespace
RECURSIVE TrimLeft(_)
TrimLeft(s) ==
    IF s # <<>> /\ Head(s) \in Whitespace THEN TrimLeft(Tail(s)) ELSE s

RECURSIVE TrimRight(_)
TrimRight(s) ==
    IF s # <<>> /\ s[Len(s)] \in Whitespace
    THEN TrimRight(SubSeq(s, 1, Len(s) - 1))
    ELSE s

Trim(s) == TrimRight(TrimLeft(s))

Digits == <<"0","1","2","3","4","5","6","7","8","9">>

\* String(n) for a non-negative integer
RECURSIVE NatToString(_)
NatToString(n) ==
    IF n < 10 THEN <<Digits[n + 1]>>
    ELSE Append(NatToString(n \div 10), Digits[(n % 10) + 1])

\* String(value) for a non-null cell
String(cell) ==
    CASE cell.type = "string"  -> cell.str
      [] cell.type = "number"  -> NatToString(cell.num)
      [] cell.type = "boolean" -> IF cell.bool THEN <<"t","r","u","e">>
                                  ELSE <<"f","a","l","s","e">>

\* getCell(row, index): row is None (absent) or Some(cells); index 0-based
GetCell(row, index) ==
    IF ~IsSome(row) \/ index >= Len(Val(row)) THEN <<>>
    ELSE LET value == Val(row)[index + 1]
         IN  IF value.type # "null" THEN Trim(String(value)) ELSE <<>>

\* mutant of IsEmptyRow: only an absent row or a row without cells is empty
IsEmptyRowLengthOnly(row) == IF ~IsSome(row) THEN TRUE ELSE Len(Val(row)) = 0

\* mutant of IsEmptyRow: cells are compared with '' without trimming
IsEmptyRowNoTrim(row) ==
    IF ~IsSome(row) THEN TRUE
    ELSE \A k \in 1..Len(Val(row)) :
            LET cell == Val(row)[k]
            IN  IF cell.type = "null" THEN TRUE ELSE String(cell) = <<>>

\* isEmptyRow(row)
IsEmptyRow(row) ==
    IF ~IsSome(row) \/ Len(Val(row)) = 0 THEN TRUE
    ELSE \A k \in 1..Len(Val(row)) :
            LET cell == Val(row)[k]
            IN  IF cell.type = "null" THEN TRUE ELSE Trim(String(cell)) = <<>>

\* mutant of IsHeaderRow: the header words are compared case-sensitively
IsHeaderRowCaseSensitive(row) ==
    IF ~IsSome(row) \/ Len(Val(row)) = 0 THEN FALSE
    ELSE LET firstCell  == GetCell(row, 0)
             secondCell == GetCell(row, 1)
         IN  \/ firstCell = <<"o","r","d","e","r">>
             \/ secondCell = <<"t","o","p","i","c">>
             \/ secondCell = <<"s","e","s","s","i","o","n">>

\* isHeaderRow(row)
IsHeaderRow(row) ==
    IF ~IsSome(row) \/ Len(Val(row)) = 0 THEN FALSE
    ELSE LET firstCell  == ToLowerCase(GetCell(row, 0))
             secondCell == ToLowerCase(GetCell(row, 1))
         IN  \/ firstCell = <<"o","r","d","e","r">>
             \/ secondCell = <<"t","o","p","i","c">>
             \/ secondCell = <<"s","e","s","s","i","o","n">>


(***************************************************************************)
(* Word Record Extractor                                                   *)
(***************************************************************************)
\* mutant of ParseWord: the word is read from column C (index 2)
ParseWordFlagColumn(row, rowNumber) ==
    LET word == GetCell(row, 2)
    IN  IF word = <<>> \/ Trim(word) = <<>> THEN None
        ELSE Some([rowNumber       |-> rowNumber,
                   order           |-> GetCell(row, 0),
                   flag            |-> GetCell(row, 2),
                   word            |-> Trim(word),
                   partOfSpeech    |-> GetCell(row, 4),
                   pronunciation   |-> GetCell(row, 5),
                   meaning         |-> GetCell(row, 6),
                   exampleSentence |-> GetCell(row, 7),
                   synonyms        |-> GetCell(row, 8),
                   dayOfWeek       |-> GetCell(row, 9),
                   date            |-> GetCell(row, 10)])

\* mutant of ParseWord: exampleSentence and synonyms read each other's column
ParseWordSwapsColumns(row, rowNumber) ==
    LET word == GetCell(row, 3)
    IN  IF word = <<>> \/ Trim(word) = <<>> THEN None
        ELSE Some([rowNumber       |-> rowNumber,
                   order           |-> GetCell(row, 0),
                   flag            |-> GetCell(row, 2),
                   word            |-> Trim(word),
                   partOfSpeech    |-> GetCell(row, 4),
                   pronunciation   |-> GetCell(row, 5),
                   meaning         |-> GetCell(row, 6),
                   exampleSentence |-> GetCell(row, 8),
                   synonyms        |-> GetCell(row, 7),
                   dayOfWeek       |-> GetCell(row, 9),
                   date            |-> GetCell(row, 10)])

\* parseWord(row, rowNumber): None is the "return null" of the source
ParseWord(row, rowNumber) ==
    LET word == GetCell(row, 3)
    IN  IF word = <<>> \/ Trim(word) = <<>> THEN None
        ELSE Some([rowNumber       |-> rowNumber,
                   order           |-> GetCell(row, 0),
                   flag            |-> GetCell(row, 2),
                   word            |-> Trim(word),
                   partOfSpeech    |-> GetCell(row, 4),
                   pronunciation   |-> GetCell(row, 5),
                   meaning         |-> GetCell(row, 6),
                   exampleSentence |-> GetCell(row, 7),
                   synonyms        |-> GetCell(row, 8),
                   dayOfWeek       |-> GetCell(row, 9),
                   date            |-> GetCell(row, 10)])

(***************************************************************************)
(* Row Grouping Parser                                                     *)
(***************************************************************************)
Uncategorized == <<"U","n","c","a","t","e","g","o","r","i","z","e","d">>

\* mutant of StartRow: the first row is never skipped
StartRowNeverSkips(grid) == 0

\* const startRow = isHeaderRow(rows[0]) ? 1 : 0   (rows[0] of an empty
\* grid is undefined, an absent row)
StartRow(grid) ==
    IF IsHeaderRow(IF Len(grid) > 0 THEN grid[1] ELSE None) THEN 1 ELSE 0

\* mutant of RowNumber: the 0-based loop index is reported
RowNumberZeroBased(idx) == idx

\* "i + 1 // 1-based row number"
RowNumber(idx) == idx + 1

\* the object literal { name, startRow, words: [] }
NewTopic(name, startRow) == [name |-> name, startRow |-> startRow, words |-> <<>>]

\* mutant of PushWord: the word is put in front of the topic's words
PushWordInFront(topic, row, idx) ==
    LET word == ParseWord(row, RowNumber(idx))
    IN  IF IsSome(word) /\ Val(word).word # <<>>
        THEN [topic EXCEPT !.words = <<Val(word)>> \o @]
        ELSE topic

\* const word = parseWord(row, i + 1);
\* if (word && word.word) currentTopic.words.push(word);
PushWord(topic, row, idx) ==
    LET word == ParseWord(row, RowNumber(idx))
    IN  IF IsSome(word) /\ Val(word).word # <<>>
        THEN [topic EXCEPT !.words = Append(@, Val(word))]
        ELSE topic

\* topicName && topicName.trim() !== ''
StartsTopic(row) ==
    LET topicName == GetCell(row, 1)
    IN  topicName # <<>> /\ Trim(topicName) # <<>>

\* mutant of StartTopicBranch: the word of the topic-start row is pushed
\* to the topic being closed
StartTopicBranchWordToClosing(ts, cur, row, idx) ==
    [topics       |-> IF IsSome(cur) THEN Append(ts, PushWord(Val(cur), row, idx))
                      ELSE ts,
     currentTopic |-> Some(IF IsSome(cur)
                           THEN NewTopic(Trim(GetCell(row, 1)), RowNumber(idx))
                           ELSE PushWord(NewTopic(Trim(GetCell(row, 1)), RowNumber(idx)),
                                         row, idx))]

\* mutant of StartTopicBranch: a closed topic without words is dropped
StartTopicBranchDropsEmpty(ts, cur, row, idx) ==
    [topics       |-> IF IsSome(cur) /\ Val(cur).words # <<>>
                      THEN Append(ts, Val(cur)) ELSE ts,
     currentTopic |-> Some(PushWord(NewTopic(Trim(GetCell(row, 1)), RowNumber(idx)),
                                    row, idx))]

\* mutant of StartTopicBranch: a row naming the open topic again continues it
StartTopicBranchMergesSameName(ts, cur, row, idx) ==
    IF IsSome(cur) /\ Val(cur).name = Trim(GetCell(row, 1))
    THEN [topics       |-> ts,
          currentTopic |-> Some(PushWord(Val(cur), row, idx))]
    ELSE [topics       |-> IF IsSome(cur) THEN Append(ts, Val(cur)) ELSE ts,
          currentTopic |-> Some(PushWord(NewTopic(Trim(GetCell(row, 1)), RowNumber(idx)),
                                         row, idx))]

\* if (topicName && topicName.trim() !== '') { ... }
StartTopicBranch(ts, cur, row, idx) ==
    [topics       |-> IF IsSome(cur) THEN Append(ts, Val(cur)) ELSE ts,
     currentTopic |-> Some(PushWord(NewTopic(Trim(GetCell(row, 1)), RowNumber(idx)),
                                    row, idx))]

\* mutant of CurrentTopicBranch: a row without a topic name closes the
\* current topic and opens "Uncategorized"
CurrentTopicBranchOpensUncategorized(ts, cur, row, idx) ==
    [topics       |-> Append(ts, Val(cur)),
     currentTopic |-> Some(PushWord(NewTopic(Uncategorized, RowNumber(idx)),
                                    row, idx))]

\* else if (currentTopic) { ... }
CurrentTopicBranch(ts, cur, row, idx) ==
    [topics       |-> ts,
     currentTopic |-> Some(PushWord(Val(cur), row, idx))]

\* mutant of UncategorizedBranch: startRow is the 0-based loop index
UncategorizedBranchZeroBased(ts, cur, row, idx) ==
    LET opened == IF ~IsSome(cur) THEN NewTopic(Uncategorized, idx)
                  ELSE Val(cur)
    IN  [topics       |-> ts,
         currentTopic |-> Some(PushWord(opened, row, idx))]

\* else { ... }: create the default "Uncategorized" topic
UncategorizedBranch(ts, cur, row, idx) ==
    LET opened == IF ~IsSome(cur) THEN NewTopic(Uncategorized, RowNumber(idx))
                  ELSE Val(cur)
    IN  [topics       |-> ts,
         currentTopic |-> Some(PushWord(opened, row, idx))]

\* mutant of LoopBody: an empty row closes the current topic
LoopBodyBlankCloses(ts, cur, row, idx) ==
    IF IsEmptyRow(row)
    THEN [topics       |-> IF IsSome(cur) THEN Append(ts, Val(cur)) ELSE ts,
          currentTopic |-> None]
    ELSE IF StartsTopic(row) THEN StartTopicBranch(ts, cur, row, idx)
    ELSE IF IsSome(cur) THEN CurrentTopicBranch(ts, cur, row, idx)
    ELSE UncategorizedBranch(ts, cur, row, idx)

\* one iteration of the for loop of parseTopics
LoopBody(ts, cur, row, idx) ==
    IF IsEmptyRow(row) THEN [topics |-> ts, currentTopic |-> cur]
    ELSE IF StartsTopic(row) THEN StartTopicBranch(ts, cur, row, idx)
    ELSE IF IsSome(cur) THEN CurrentTopicBranch(ts, cur, row, idx)
    ELSE UncategorizedBranch(ts, cur, row, idx)

\* "Add the last topic" and return
LastTopic(ts, cur) == IF IsSome(cur) THEN Append(ts, Val(cur)) ELSE ts

RECURSIVE ParseTopicsFrom(_, _, _, _)
ParseTopicsFrom(grid, idx, ts, cur) ==
    IF idx >= Len(grid) THEN LastTopic(ts, cur)
    ELSE LET st == LoopBody(ts, cur, grid[idx + 1], idx)
         IN  ParseTopicsFrom(grid, idx + 1, st.topics, st.currentTopic)

\* parseTopics(rows) as a function of the grid
ParseTopics(grid) == ParseTopicsFrom(grid, StartRow(grid), <<>>, None)

(***************************************************************************)
(* Statistics Aggregator                                                   *)
(***************************************************************************)
ZeroByFlag == [new |-> 0, known |-> 0, forgotten |-> 0, learned |-> 0]

\* (word.flag || '').toString().toLowerCase().trim()
NormalFlag(word) == Trim(ToLowerCase(word.flag))

\* mutant of CountFlag: the flag is compared without lower-casing
CountFlagCaseSensitive(byFlag, word) ==
    LET flag == Trim(word.flag)
    IN  IF flag = <<"n">> THEN [byFlag EXCEPT !.new = @ + 1]
        ELSE IF flag = <<"y">> THEN [byFlag EXCEPT !.known = @ + 1]
        ELSE IF flag = <<"?">> THEN [byFlag EXCEPT !.forgotten = @ + 1]
        ELSE IF flag = <<"o","k">> THEN [byFlag EXCEPT !.learned = @ + 1]
        ELSE byFlag

\* the if / else-if chain on the flag of one word
CountFlag(byFlag, word) ==
    LET flag == NormalFlag(word)
    IN  IF flag = <<"n">> THEN [byFlag EXCEPT !.new = @ + 1]
        ELSE IF flag = <<"y">> THEN [byFlag EXCEPT !.known = @ + 1]
        ELSE IF flag = <<"?">> THEN [byFlag EXCEPT !.forgotten = @ + 1]
        ELSE IF flag = <<"o","k">> THEN [byFlag EXCEPT !.learned = @ + 1]
        ELSE byFlag

\* mutant of CountWords: the loop over the words starts at the second word
CountWordsFromSecond(byFlag, words) ==
    LET counted[k \in 0..Len(words)] ==
            IF k <= 1 THEN byFlag ELSE CountFlag(counted[k - 1], words[k])
    IN  counted[Len(words)]

\* topic.words.forEach(word => ...)
RECURSIVE CountWords(_, _)
CountWords(byFlag, words) ==
    IF words = <<>> THEN byFlag
    ELSE CountWords(CountFlag(byFlag, Head(words)), Tail(words))

\* mutant of CountTopics: totalWords is assigned, not accumulated
RECURSIVE CountTopicsAssign(_, _)
CountTopicsAssign(stats, ts) ==
    IF ts = <<>> THEN stats
    ELSE CountTopicsAssign([totalWords |-> Len(Head(ts).words),
                            byFlag     |-> CountWords(stats.byFlag, Head(ts).words)],
                           Tail(ts))

\* topics.forEach(topic => ...) over stats = [totalWords, byFlag]
RECURSIVE CountTopics(_, _)
CountTopics(stats, ts) ==
    IF ts = <<>> THEN stats
    ELSE CountTopics([totalWords |-> stats.totalWords + Len(Head(ts).words),
                      byFlag     |-> CountWords(stats.byFlag, Head(ts).words)],
                     Tail(ts))

\* calculateStatistics(topics)
CalculateStatistics(ts) ==
    LET stats == CountTopics([totalWords |-> 0, byFlag |-> ZeroByFlag], ts)
    IN  [totalTopics |-> Len(ts),
         totalWords  |-> stats.totalWords,
         byFlag      |-> stats.byFlag]

\* mutant of CalculateTopicStatistics: the flag counters are never filled
CalculateTopicStatisticsWordsOnly(ts) ==
    [totalWords |-> CountTopics([totalWords |-> 0, byFlag |-> ZeroByFlag], ts).totalWords,
     byFlag     |-> ZeroByFlag]

\* calculateTopicStatistics(topics)
CalculateTopicStatistics(ts) ==
    CountTopics([totalWords |-> 0, byFlag |-> ZeroByFlag], ts)

(***************************************************************************)
(* Inputs                                                                  *)
(***************************************************************************)
\* rows a worksheet grid is built from (None: an absent row)
RowAbsent   == None
RowNoCells  == Some(<<>>)
RowBlank    == Some(<<Null, Str(<<" ">>), Str(<<>>), Null>>)
RowHeader   == Some(<<Str(<<"O","r","d","e","r">>), Str(<<"T","o","p","i","c">>),
                      Str(<<"F","l","a","g">>), Str(<<"W","o","r","d">>)>>)
RowSession  == Some(<<Num(1), Str(<<" ","S","E","S","S","I","O","N"," ">>),
                      Str(<<"n">>), Str(<<"g","o">>)>>)
RowOrder    == Some(<<Str(<<" ","o","r","d","e","r">>), Str(<<"T","3">>),
                      Str(<<"?">>), Str(<<"p","i","e">>)>>)
RowTopicWord == Some(<<Num(1), Str(<<"T","1">>), Str(<<"N">>), Str(<<"c","a","t">>)>>)
RowTopic    == Some(<<Null, Str(<<" ","T","2"," ">>)>>)
RowWord     == Some(<<Num(2), Str(<<>>), Str(<<" ","Y"," ">>),
                      Str(<<" ","d","o","g"," ">>)>>)
RowFull     == Some(<<Num(13), Null, Str(<<"o","k">>), Str(<<"f","i","g">>),
                      Str(<<"n">>), Str(<<"/","f","/">>), Str(<<"q","u","a">>),
                      Str(<<"A"," ","f","i","g","."," ">>), Str(<<>>),
                      Num(5), Str(<<"2","/","9">>)>>)
RowNote     == Some(<<Num(4), Null, Str(<<"?">>)>>)
RowScalar   == Some(<<Null, Num(0), Str(<<"x">>), Bool(TRUE)>>)
RowNoFlag   == Some(<<Num(5), Null, Null, Str(<<"e","l","k">>)>>)

RowPool == {RowAbsent, RowNoCells, RowBlank, RowHeader, RowSession, RowOrder,
            RowTopicWord, RowTopic, RowWord, RowFull, RowNote, RowScalar,
            RowNoFlag}

\* all grids of at most n rows
RECURSIVE GridsUpTo(_)
GridsUpTo(n) ==
    IF n = 0 THEN {<<>>}
    ELSE LET shorter == GridsUpTo(n - 1)
         IN  shorter \cup {Append(g, r) : g \in {h \in shorter : Len(h) = n - 1},
                                              r \in RowPool}

GridPool == GridsUpTo(MaxRows)

\* a worksheet as delivered by the fetch collaborator
Worksheet(error, values) ==
    [name        |-> "Sheet1",
     range       |-> IF IsSome(values) THEN Some("A1:K9") ELSE None,
     rowCount    |-> IF IsSome(values) THEN Some(Len(Val(values))) ELSE None,
     columnCount |-> IF IsSome(values) THEN Some(11) ELSE None,
     error       |-> error,
     values      |-> values]

WorksheetPool ==
    {Worksheet(e, v) : e \in {None, Some("boom")},
                       v \in {None} \cup {Some(g) : g \in GridPool}}

\* the pass-through metadata of a document (None: field absent)
MetaPool ==
    {[cached |-> None, cachedAt |-> None, fetchedAt |-> None],
     [cached |-> Some(FALSE), cachedAt |-> Some("2026-02-09T10:00:00Z"),
      fetchedAt |-> Some("2026-02-09T09:00:00Z")]}

Document(worksheets, meta) ==
    [fileName   |-> "vocab.xlsx",
     fileSize   |-> 1024,
     worksheets |-> worksheets,
     _cached    |-> meta.cached,
     _cachedAt  |-> meta.cachedAt,
     _fetchedAt |-> meta.fetchedAt]

DocumentPool ==
    {Document(ws, m) : ws \in {None, Some(<<>>)}
                               \cup {Some(<<s>>) : s \in WorksheetPool},
                       m \in MetaPool}

(***************************************************************************)
(* TypeErrors: reading a property of null or undefined                     *)
(***************************************************************************)
\* row.length, row.every, row[index], word.word on an absent value
ReadRaises(o) == ~IsSome(o)

\* isEmptyRow reading row.length with no test of the row before it
IsEmptyRowRaisesUnguarded(row) == ReadRaises(row)

\* isEmptyRow: `!row ||` returns before row.length and row.every are read
IsEmptyRowRaises(row) ==
    IF ~IsSome(row) THEN FALSE ELSE ReadRaises(row)

\* getCell: `!row ||` returns '' before row.length and row[index] are read
GetCellRaises(row) ==
    IF ~IsSome(row) THEN FALSE ELSE ReadRaises(row)

\* isHeaderRow: `!row ||` returns before row.length and the two getCell
IsHeaderRowRaises(row) ==
    IF ~IsSome(row) THEN FALSE ELSE (ReadRaises(row) \/ GetCellRaises(row))

\* `word && word.word`: the null of parseWord is never dereferenced
WordReadRaises(word) ==
    IF ~IsSome(word) THEN FALSE ELSE ReadRaises(word)

\* one loop iteration raises when isEmptyRow does, or, for a row that is
\* not skipped, when getCell, parseWord or the read of word.word does
LoopBodyRaises(row, idx) ==
    IF IsEmptyRowRaises(row) THEN TRUE
    ELSE IF IsEmptyRow(row) THEN FALSE
    ELSE (GetCellRaises(row) \/ WordReadRaises(ParseWord(row, RowNumber(idx))))

(***************************************************************************)
(* transformVocabData as a state machine                                   *)
(***************************************************************************)
\* JavaScript truthiness of an optional string field
Truthy(o) == IsSome(o) /\ Val(o) # ""

\* object.name: undefined when the object has no such property
Property(object, name) ==
    IF name \in DOMAIN object THEN object[name] ELSE None

\* the pass-through test without its error operand
PassesThroughIgnoresError(worksheet) ==
    IF ~IsSome(Property(worksheet, "values")) THEN TRUE
    ELSE Len(Val(worksheet.values)) = 0

\* worksheet.error || !worksheet.values || worksheet.values.length === 0
PassesThrough(worksheet) ==
    IF Truthy(Property(worksheet, "error")) THEN TRUE
    ELSE IF ~IsSome(Property(worksheet, "values")) THEN TRUE
    ELSE Len(Val(worksheet.values)) = 0

\* !excelData || !excelData.worksheets || excelData.worksheets.length === 0
NoWorksheets(data) ==
    IF ~IsSome(data) THEN TRUE
    ELSE IF ~IsSome(Val(data).worksheets) THEN TRUE
    ELSE Len(Val(Val(data).worksheets)) = 0

Worksheets == Val(Val(excelData).worksheets)

\* the transformer is used on its own, without the server
NoServer == [phase |-> "off"]

\* the state of a call at its entry, and of a call that has returned
CallEntry(data) ==
    [excelData |-> data, result |-> None, w |-> 0, rows |-> <<>>, i |-> 0,
     topics |-> <<>>, currentTopic |-> None, pc |-> "start"]

\* no second call is running
NoCall == [CallEntry(None) EXCEPT !.pc = "done"]

Init ==
    /\ excelData \in {None} \cup {Some(d) : d \in DocumentPool}
    /\ result = None
    /\ w = 0
    /\ rows = <<>>
    /\ i = 0
    /\ topics = <<>>
    /\ currentTopic = None
    /\ pc = "start"
    /\ other = NoCall
    /\ server = NoServer

\* the early return handing back a copy with an empty worksheets array
ReturnInputEmptyWorksheets ==
    /\ pc = "start"
    /\ NoWorksheets(excelData)
    /\ result' = IF IsSome(excelData)
                 THEN Some([Val(excelData) EXCEPT !.worksheets = Some(<<>>)])
                 ELSE excelData
    /\ pc' = "done"
    /\ UNCHANGED <<server, other, excelData, w, rows, i, topics, currentTopic>>

\* if (<no worksheets>) return excelData;
ReturnInput ==
    /\ pc = "start"
    /\ NoWorksheets(excelData)
    /\ result' = excelData
    /\ pc' = "done"
    /\ UNCHANGED <<server, other, excelData, w, rows, i, topics, currentTopic>>

\* const result = { fileName, fileSize, worksheets: [] }
NewResult ==
    /\ pc = "start"
    /\ ~NoWorksheets(excelData)
    /\ result' = Some([fileName   |-> Val(excelData).fileName,
                       fileSize   |-> Val(excelData).fileSize,
                       worksheets |-> Some(<<>>),
                       _cached    |-> None,
                       _cachedAt  |-> None,
                       _fetchedAt |-> None])
    /\ pc' = "forEach"
    /\ UNCHANGED <<server, other, excelData, w, rows, i, topics, currentTopic>>

\* mutant of PushWorksheet: the worksheet is put in front (unshift)
PushWorksheetInFront(doc, worksheet) ==
    Some([Val(doc) EXCEPT !.worksheets = Some(<<worksheet>> \o Val(@))])

\* result.worksheets.push(...)
PushWorksheet(doc, worksheet) ==
    Some([Val(doc) EXCEPT !.worksheets = Some(Append(Val(@), worksheet))])

\* result.worksheets.push(worksheet); return;
PassThrough ==
    /\ pc = "forEach"
    /\ w < Len(Worksheets)
    /\ PassesThrough(Worksheets[w + 1])
    /\ result' = PushWorksheet(result, Worksheets[w + 1])
    /\ w' = w + 1
    /\ UNCHANGED <<server, other, excelData, rows, i, topics, currentTopic, pc>>

\* topics: parseTopics(worksheet.values) -- entry: topics = [],
\* currentTopic = null, i = startRow
EnterParseTopics ==
    /\ pc = "forEach"
    /\ w < Len(Worksheets)
    /\ ~PassesThrough(Worksheets[w + 1])
    /\ rows' = Val(Worksheets[w + 1].values)
    /\ topics' = <<>>
    /\ currentTopic' = None
    /\ i' = StartRow(Val(Worksheets[w + 1].values))
    /\ pc' = IF IsHeaderRowRaises(Val(Worksheets[w + 1].values)[1])
             THEN "error" ELSE "parse"
    /\ UNCHANGED <<server, other, excelData, result, w>>

\* one loop iteration: the effect of LoopBody on the locals, or the
\* TypeError that ends the call
Iterate ==
    LET st == LoopBody(topics, currentTopic, rows[i + 1], i)
    IN  IF LoopBodyRaises(rows[i + 1], i)
        THEN /\ pc' = "error"
             /\ UNCHANGED <<server, other, excelData, result, w, rows, i, topics, currentTopic>>
        ELSE /\ topics' = st.topics
             /\ currentTopic' = st.currentTopic
             /\ i' = i + 1
             /\ UNCHANGED <<server, other, excelData, result, w, rows, pc>>

\* if (isEmptyRow(row)) continue;
SkipEmptyRow ==
    /\ pc = "parse"
    /\ i < Len(rows)
    /\ IsEmptyRow(rows[i + 1])
    /\ Iterate

\* the row starts a new topic
StartTopic ==
    /\ pc = "parse"
    /\ i < Len(rows)
    /\ ~IsEmptyRow(rows[i + 1])
    /\ StartsTopic(rows[i + 1])
    /\ Iterate

\* the row belongs to the current topic
AddToCurrentTopic ==
    /\ pc = "parse"
    /\ i < Len(rows)
    /\ ~IsEmptyRow(rows[i + 1])
    /\ ~StartsTopic(rows[i + 1])
    /\ IsSome(currentTopic)
    /\ Iterate

\* no current topic: the row goes to a new "Uncategorized" topic
AddToUncategorized ==
    /\ pc = "parse"
    /\ i < Len(rows)
    /\ ~IsEmptyRow(rows[i + 1])
    /\ ~StartsTopic(rows[i + 1])
    /\ ~IsSome(currentTopic)
    /\ Iterate

\* loop exit: "Add the last topic", return topics
ReturnTopics ==
    /\ pc = "parse"
    /\ i >= Len(rows)
    /\ topics' = LastTopic(topics, currentTopic)
    /\ currentTopic' = None
    /\ pc' = "statistics"
    /\ UNCHANGED <<server, other, excelData, result, w, rows, i>>

\* topic statistics taken with the worksheet-level calculateStatistics
WithWorksheetStatistics(topic) ==
    [name       |-> topic.name,
     startRow   |-> topic.startRow,
     words      |-> topic.words,
     statistics |-> CalculateStatistics(<<topic>>)]

\* topic.statistics = calculateTopicStatistics([topic])
WithStatistics(topic) ==
    [name       |-> topic.name,
     startRow   |-> topic.startRow,
     words      |-> topic.words,
     statistics |-> CalculateTopicStatistics(<<topic>>)]

\* mutant of StructuredWorksheet: the structured worksheet keeps a values
\* grid, the input's without its first row
StructuredWorksheetKeepsValues(worksheet, ts) ==
    [name        |-> worksheet.name,
     range       |-> worksheet.range,
     rowCount    |-> worksheet.rowCount,
     columnCount |-> worksheet.columnCount,
     values      |-> Some(Tail(Val(worksheet.values))),
     topics      |-> [k \in 1..Len(ts) |-> WithStatistics(ts[k])],
     statistics  |-> CalculateStatistics(ts)]

\* the structuredWorksheet object of one parsed worksheet
StructuredWorksheet(worksheet, ts) ==
    [name        |-> worksheet.name,
     range       |-> worksheet.range,
     rowCount    |-> worksheet.rowCount,
     columnCount |-> worksheet.columnCount,
     topics      |-> [k \in 1..Len(ts) |-> WithStatistics(ts[k])],
     statistics  |-> CalculateStatistics(ts)]

\* mutant of PushStructured: topics and statistics are written onto the
\* input worksheet itself, which is then pushed
PushStructuredInPlace ==
    /\ pc = "statistics"
    /\ result' = PushWorksheet(result, StructuredWorksheet(Worksheets[w + 1], topics))
    /\ excelData' = Some([Val(excelData) EXCEPT !.worksheets =
                       Some([Worksheets EXCEPT ![w + 1] =
                                StructuredWorksheet(Worksheets[w + 1], topics)])])
    /\ w' = w + 1
    /\ rows' = <<>>
    /\ i' = 0
    /\ topics' = <<>>
    /\ pc' = "forEach"
    /\ UNCHANGED <<server, other, currentTopic>>

\* statistics of the worksheet and of each topic; result.worksheets.push
PushStructured ==
    /\ pc = "statistics"
    /\ result' = PushWorksheet(result, StructuredWorksheet(Worksheets[w + 1], topics))
    /\ w' = w + 1
    /\ rows' = <<>>
    /\ i' = 0
    /\ topics' = <<>>
    /\ pc' = "forEach"
    /\ UNCHANGED <<server, other, excelData, currentTopic>>

\* "Add cached metadata if present"; return result
ReturnResult ==
    /\ pc = "forEach"
    /\ w >= Len(Worksheets)
    /\ result' = Some([Val(result) EXCEPT
            !._cached    = IF IsSome(Val(excelData)._cached)
                           THEN Val(excelData)._cached ELSE @,
            !._cachedAt  = IF Truthy(Val(excelData)._cachedAt)
                           THEN Val(excelData)._cachedAt ELSE @,
            !._fetchedAt = IF Truthy(Val(excelData)._fetchedAt)
                           THEN Val(excelData)._fetchedAt ELSE @])
    /\ pc' = "done"
    /\ UNCHANGED <<server, other, excelData, w, rows, i, topics, currentTopic>>

Next ==
    \/ ReturnInput
    \/ NewResult
    \/ PassThrough
    \/ EnterParseTopics
    \/ SkipEmptyRow
    \/ StartTopic
    \/ AddToCurrentTopic
    \/ AddToUncategorized
    \/ ReturnTopics
    \/ PushStructured
    \/ ReturnResult

Spec == Init /\ [][Next]_vars

(***************************************************************************)
(* Documents of several worksheets: the forEach of transformVocabData and  *)
(* the metadata copy, over short grids                                     *)
(***************************************************************************)
MaxSheets == 2

SheetNames == <<"Sheet1", "Sheet2", "Sheet3", "Sheet4">>

\* short grids that between them take every branch of the parse loop
SheetGridPool ==
    {<<RowTopicWord, RowWord>>, <<RowBlank, RowNoFlag>>}

\* a worksheet as read from the workbook: an error message (possibly the
\* empty string), a values grid (possibly empty), neither or both
SheetPool ==
    {Worksheet(e, v) : e \in {None, Some(""), Some("boom")},
                       v \in {None, Some(<<>>)}
                             \cup {Some(g) : g \in SheetGridPool}}

\* the worksheets array: each worksheet is named after its position
NamedSheets(sheets) ==
    [k \in 1..Len(sheets) |-> [sheets[k] EXCEPT !.name = SheetNames[k]]]

SheetsUpTo(n) ==
    UNION {{NamedSheets(s) : s \in [1..k -> SheetPool]} : k \in 0..n}

\* each metadata field absent, present and falsy, or present and truthy
SheetMetaPool ==
    [cached    : {None, Some(FALSE), Some(TRUE)},
     cachedAt  : {None, Some(""), Some("2026-02-09T10:00:00Z")},
     fetchedAt : {None, Some(""), Some("2026-02-09T09:00:00Z")}]

SheetDocumentPool ==
    {Document(ws, m) : ws \in {None} \cup {Some(s) : s \in SheetsUpTo(MaxSheets)},
                       m \in SheetMetaPool}

InitSheets ==
    /\ excelData \in {None} \cup {Some(d) : d \in SheetDocumentPool}
    /\ result = None
    /\ w = 0
    /\ rows = <<>>
    /\ i = 0
    /\ topics = <<>>
    /\ currentTopic = None
    /\ pc = "start"
    /\ other = NoCall
    /\ server = NoServer

SpecSheets == InitSheets /\ [][Next]_vars

(***************************************************************************)
(* Two calls of transformVocabData, interleaved step by step               *)
(***************************************************************************)
\* mutant of SharedLocals: currentTopic is declared at module level
SharedSomeLocals == {"currentTopic"}

\* the variables of parseTopics declared at module level, where every call
\* would read and write the same one: none (topics and currentTopic are
\* declared inside the function)
SharedLocals == {}

\* one step of a call, as a function of the call's state
CallStep(st) ==
    CASE st.pc = "start" ->
           IF NoWorksheets(st.excelData)
           THEN [st EXCEPT !.result = st.excelData, !.pc = "done"]
           ELSE [st EXCEPT
                    !.result = Some([fileName   |-> Val(st.excelData).fileName,
                                     fileSize   |-> Val(st.excelData).fileSize,
                                     worksheets |-> Some(<<>>),
                                     _cached    |-> None,
                                     _cachedAt  |-> None,
                                     _fetchedAt |-> None]),
                    !.pc = "forEach"]
      [] st.pc = "forEach" ->
           LET data   == Val(st.excelData)
               sheets == Val(data.worksheets)
           IN  IF st.w >= Len(sheets)
               THEN [st EXCEPT
                        !.result = Some([Val(st.result) EXCEPT
                            !._cached    = IF IsSome(data._cached)
                                           THEN data._cached ELSE @,
                            !._cachedAt  = IF Truthy(data._cachedAt)
                                           THEN data._cachedAt ELSE @,
                            !._fetchedAt = IF Truthy(data._fetchedAt)
                                           THEN data._fetchedAt ELSE @]),
                        !.pc = "done"]
               ELSE IF PassesThrough(sheets[st.w + 1])
               THEN [st EXCEPT !.result = PushWorksheet(st.result, sheets[st.w + 1]),
                               !.w = st.w + 1]
               ELSE LET grid == Val(sheets[st.w + 1].values)
                    IN  [st EXCEPT !.rows = grid,
                                   !.topics = <<>>,
                                   !.currentTopic = None,
                                   !.i = StartRow(grid),
                                   !.pc = IF IsHeaderRowRaises(grid[1])
                                          THEN "error" ELSE "parse"]
      [] st.pc = "parse" ->
           IF st.i >= Len(st.rows)
           THEN [st EXCEPT !.topics = LastTopic(st.topics, st.currentTopic),
                           !.currentTopic = None,
                           !.pc = "statistics"]
           ELSE IF LoopBodyRaises(st.rows[st.i + 1], st.i)
           THEN [st EXCEPT !.pc = "error"]
           ELSE LET nxt == LoopBody(st.topics, st.currentTopic,
                                    st.rows[st.i + 1], st.i)
                IN  [st EXCEPT !.topics = nxt.topics,
                               !.currentTopic = nxt.currentTopic,
                               !.i = st.i + 1]
      [] st.pc = "statistics" ->
           [st EXCEPT
               !.result = PushWorksheet(st.result,
                              StructuredWorksheet(
                                  Val(Val(st.excelData).worksheets)[st.w + 1],
                                  st.topics)),
               !.w = st.w + 1,
               !.rows = <<>>,
               !.i = 0,
               !.topics = <<>>,
               !.pc = "forEach"]
      [] OTHER -> st

\* the state the second call works on: its own record, with the module-level
\* variables in place of its locals of the same name
Effective(st) ==
    [st EXCEPT !.topics = IF "topics" \in SharedLocals THEN topics ELSE @,
               !.currentTopic = IF "currentTopic" \in SharedLocals
                                THEN currentTopic ELSE @]

\* one step of the second call
StepOther ==
    /\ other.pc \notin {"done", "error"}
    /\ LET nxt == CallStep(Effective(other))
       IN  /\ other' = nxt
           /\ topics' = IF "topics" \in SharedLocals THEN nxt.topics ELSE topics
           /\ currentTopic' = IF "currentTopic" \in SharedLocals
                              THEN nxt.currentTopic ELSE currentTopic
    /\ UNCHANGED <<server, excelData, result, w, rows, i, pc>>

\* what a call returns when nothing else runs
RECURSIVE RunAlone(_)
RunAlone(st) ==
    IF st.pc \in {"done", "error"} THEN st ELSE RunAlone(CallStep(st))

TransformVocabData(data) == RunAlone(CallEntry(data)).result

\* inputs of the two calls: an absent document, a document whose worksheet
\* is passed through, and documents of one parsed worksheet
CallInputPool ==
    {None, Some(Document(Some(<<Worksheet(Some("boom"), None)>>),
                         [cached |-> None, cachedAt |-> None, fetchedAt |-> None]))}
    \cup {Some(Document(Some(<<Worksheet(None, Some(g))>>),
                        [cached |-> Some(TRUE), cachedAt |-> None, fetchedAt |-> None]))
            : g \in SheetGridPool \cup {<<RowTopic, RowFull>>}}

InitCalls ==
    /\ excelData \in CallInputPool
    /\ result = None
    /\ w = 0
    /\ rows = <<>>
    /\ i = 0
    /\ topics = <<>>
    /\ currentTopic = None
    /\ pc = "start"
    /\ other \in {CallEntry(data) : data \in CallInputPool \ {excelData}}
    /\ server = NoServer

NextCalls == Next \/ StepOther

SpecCalls == InitCalls /\ [][NextCalls]_vars

(***************************************************************************)
(* server.js (the server on the object store, lines 466-1272)              *)
(***************************************************************************)
MaxRequests == 2    \* requests received in one run of the server

\* sheetNameParam.split(',')
RECURSIVE SplitComma(_)
SplitComma(s) ==
    IF \E k \in 1..Len(s) : s[k] = ","
    THEN LET k == CHOOSE c \in 1..Len(s) :
                      s[c] = "," /\ \A b \in 1..(c - 1) : s[b] # ","
         IN  <<SubSeq(s, 1, k - 1)>> \o SplitComma(SubSeq(s, k + 1, Len(s)))
    ELSE <<s>>

\* sheetNameParam ? sheetNameParam.split(',').map(name => name.trim())
\*                      .filter(name => name) : ['']
ParseSheetNames(sheetNameParam) ==
    IF sheetNameParam = <<>> THEN <<<<>>>>
    ELSE LET parts == SplitComma(sheetNameParam)
         IN  SelectSeq([k \in 1..Len(parts) |-> Trim(parts[k])],
                       LAMBDA name : name # <<>>)

\* sheetNames.join(', ')
RECURSIVE JoinNames(_)
JoinNames(names) ==
    IF names = <<>> THEN <<>>
    ELSE IF Len(names) = 1 THEN names[1]
    ELSE names[1] \o <<",", " ">> \o JoinNames(Tail(names))

\* sheetName || 'default'
SheetKey(sheetName) ==
    IF sheetName = <<>> THEN <<"d","e","f","a","u","l","t">> ELSE sheetName

\* the values that must stay on the server
AccessToken  == "token-1"
DeviceCode   == "device-code-1"
ClientSecret == "client-secret"
Secrets == {AccessToken, DeviceCode, ClientSecret}

\* the default serverState of loadState and of the module
DefaultState ==
    [sheetUrl        |-> "https://sharepoint/sheet",
     sheetName       |-> <<>>,
     token           |-> None,
     expiresOn       |-> None,
     deviceCode      |-> None,
     userCode        |-> None,
     verificationUri |-> None]

\* a serverState saved by an authenticated server
SignedInState(sheetName) ==
    [DefaultState EXCEPT !.sheetName = sheetName,
                         !.token = Some(AccessToken),
                         !.expiresOn = Some("expires-1")]

\* mutant of IsAuthenticated: no authentication is asked for
IsAuthenticatedAlways(srv) == TRUE

\* isAuthenticated(): a token and an expiry more than five minutes ahead
IsAuthenticated(srv) ==
    IF ~IsSome(srv.state.token) THEN FALSE
    ELSE IF ~IsSome(srv.state.expiresOn) THEN FALSE
    ELSE srv.beforeExpiry

\* the variables of the transformer calls, which the server leaves alone
callVars == <<excelData, result, w, rows, i, topics, currentTopic, pc, other>>

\* saveState(serverState): put(STATE_KEY, JSON.stringify(state))
SaveState(srv) == [srv EXCEPT !.store = Some(srv.state)]

\* the sheets a request can name, and their keys in the cache
SheetNamePool == {<<"A">>, <<"B">>}
CacheKeys == {SheetKey(name) : name \in SheetNamePool \cup {<<>>}}

\* the sheetName query parameter of a request (empty: not given)
SheetNameParamPool ==
    {<<>>, <<"A">>, <<"B">>, <<"A", ",", " ", "B">>}

\* what the workbook holds for a sheet when it is read
UpstreamPool ==
    {Document(Some(<<Worksheet(None, Some(g))>>),
              [cached |-> None, cachedAt |-> None, fetchedAt |-> None])
        : g \in SheetGridPool}

\* an entry of the cache: the structured worksheets and their timestamp
CacheEntry(doc, timestamp) ==
    [data      |-> Val(Val(TransformVocabData(Some(doc))).worksheets),
     timestamp |-> timestamp]

\* getCachedData: { ...cachedSheet.data, _cached: true, _cachedAt }
GetCachedData(srv, sheetName) ==
    LET entry == srv.cache[SheetKey(sheetName)]
    IN  IF IsSome(entry)
        THEN Some([error      |-> None,
                   worksheets |-> Val(entry).data,
                   cached     |-> TRUE,
                   at         |-> Val(entry).timestamp])
        ELSE None

\* a server that has just started: the state load is pending, serverState
\* holds the defaults, the store and the cache are what earlier runs left;
\* "if (isAuthenticated()) startTokenRefreshTimer()" has run on the defaults
InitServer ==
    /\ excelData = None
    /\ result = None
    /\ w = 0
    /\ rows = <<>>
    /\ i = 0
    /\ topics = <<>>
    /\ currentTopic = None
    /\ pc = "done"
    /\ other = NoCall
    /\ \E stored \in {None, Some(DefaultState), Some(SignedInState(<<>>)),
                      Some(SignedInState(<<"A">>))},
          cached \in SUBSET SheetNamePool,
          valid \in BOOLEAN :
          server = [phase        |-> "up",
                    state        |-> DefaultState,
                    store        |-> stored,
                    load         |-> "pending",
                    loaded       |-> None,
                    graphToken   |-> None,
                    deviceFlow   |-> "none",
                    beforeExpiry |-> valid,
                    timer        |-> IsAuthenticated([state |-> DefaultState,
                                                      beforeExpiry |-> valid]),
                    cache        |-> [key \in CacheKeys |->
                                        IF key \in cached
                                        THEN Some(CacheEntry(
                                                 CHOOSE doc \in UpstreamPool : TRUE, 0))
                                        ELSE None],
                    req          |-> None,
                    authStart    |-> FALSE,
                    response     |-> None,
                    handled      |-> 0]

\* loadState: the get of STATE_KEY is answered by the store
LoadRead ==
    /\ server.load = "pending"
    /\ server' = [server EXCEPT !.loaded = server.store, !.load = "read"]
    /\ UNCHANGED callVars

\* serverState = loadedState (the defaults when the store held no state)
LoadDone ==
    /\ server.load = "read"
    /\ server' = [server EXCEPT
                    !.state = IF IsSome(server.loaded)
                              THEN Val(server.loaded) ELSE DefaultState,
                    !.load = "done"]
    /\ UNCHANGED callVars

\* the clock comes within five minutes of expiresOn
TokenExpires ==
    /\ server.beforeExpiry
    /\ server' = [server EXCEPT !.beforeExpiry = FALSE]
    /\ UNCHANGED callVars

\* the deviceCodePrompt callback of initializeGraph
DeviceCodePrompt ==
    /\ server.deviceFlow = "started"
    /\ server' = SaveState([server EXCEPT
                    !.state.deviceCode = Some(DeviceCode),
                    !.state.userCode = Some("user-code-1"),
                    !.state.verificationUri = Some("https://microsoft.com/devicelogin"),
                    !.deviceFlow = "prompted"])
    /\ UNCHANGED callVars

\* the user enters the code: the credential stores _cachedToken
UserSignsIn ==
    /\ server.deviceFlow = "prompted"
    /\ server' = [server EXCEPT
                    !.graphToken = Some([token |-> AccessToken,
                                         expiresOn |-> "expires-1"]),
                    !.beforeExpiry = TRUE,
                    !.deviceFlow = "none"]
    /\ UNCHANGED callVars

\* what isAuthenticated() looks at, as it stands when a request is checked
AuthState(srv) ==
    [token        |-> srv.state.token,
     expiresOn    |-> srv.state.expiresOn,
     beforeExpiry |-> srv.beforeExpiry]

\* what an invocation of readExcelFileAsync finds: serverState.token, passed
\* as its argument, the state isAuthenticated() would look at, and whether
\* the graph helper holds a token of its own
FetchState(srv) ==
    [token        |-> srv.state.token,
     expiresOn    |-> srv.state.expiresOn,
     beforeExpiry |-> srv.beforeExpiry,
     graphToken   |-> IsSome(srv.graphToken)]

\* a request is received
Receive(srv) == [srv EXCEPT !.handled = @ + 1]

\* res.status(status).json(body)
Respond(srv, route, status, body) ==
    [srv EXCEPT !.response = Some([route |-> route, status |-> status, body |-> body])]

\* the answer of GET /api/sheet/data to a request, with what isAuthenticated()
\* looked at when the request was checked
RespondData(srv, status, body, authState, request) ==
    [srv EXCEPT
       !.req = None,
       !.response = Some([route     |-> "GET /api/sheet/data",
                          status    |-> status,
                          body      |-> body,
                          authState |-> authState,
                          request   |-> request])]

\* GET /api/auth/status responding with the whole serverState
AuthStatusBodyWholeState(srv) ==
    [authenticated   |-> IsAuthenticated(srv),
     token           |-> srv.state.token,
     deviceCode      |-> srv.state.deviceCode,
     userCode        |-> srv.state.userCode,
     verificationUri |-> srv.state.verificationUri]

\* the body of GET /api/auth/status
AuthStatusBody(srv) ==
    [authenticated   |-> IsAuthenticated(srv),
     userCode        |-> srv.state.userCode,
     verificationUri |-> srv.state.verificationUri]

\* GET /api/auth/status
AuthStatus ==
    /\ server.handled < MaxRequests
    /\ server' = Respond(Receive(server), "GET /api/auth/status", 200,
                         AuthStatusBody(server))
    /\ UNCHANGED callVars

\* POST /api/auth/start up to the two-second wait: the state is reset and
\* saved, initializeGraph drops the cached token, getUserAsync starts the
\* device code flow
AuthStartBegin ==
    /\ server.handled < MaxRequests
    /\ ~server.authStart
    /\ server' = SaveState([Receive(server) EXCEPT
                    !.state.token = None,
                    !.state.expiresOn = None,
                    !.state.deviceCode = None,
                    !.state.userCode = None,
                    !.state.verificationUri = None,
                    !.graphToken = None,
                    !.deviceFlow = "started",
                    !.timer = FALSE,
                    !.authStart = TRUE])
    /\ UNCHANGED callVars

\* POST /api/auth/start after the wait
AuthStartRespond ==
    /\ server.authStart
    /\ server' = Respond([server EXCEPT !.authStart = FALSE],
                         "POST /api/auth/start", 200,
                         [success         |-> TRUE,
                          userCode        |-> server.state.userCode,
                          verificationUri |-> server.state.verificationUri])
    /\ UNCHANGED callVars

\* GET /api/auth/poll
AuthPoll ==
    /\ server.handled < MaxRequests
    /\ LET got == IF IsSome(server.graphToken) /\ ~IsAuthenticated(server)
                  THEN SaveState([Receive(server) EXCEPT
                           !.state.token = Some(Val(server.graphToken).token),
                           !.state.expiresOn = Some(Val(server.graphToken).expiresOn),
                           !.state.deviceCode = None,
                           !.state.userCode = None,
                           !.timer = TRUE])
                  ELSE Receive(server)
       IN  server' = Respond(got, "GET /api/auth/poll", 200,
                             [authenticated |-> IsAuthenticated(got)])
    /\ UNCHANGED callVars

\* GET /api/sheet/url
SheetUrl ==
    /\ server.handled < MaxRequests
    /\ server' = Respond(Receive(server), "GET /api/sheet/url", 200,
                         [sheetUrl  |-> server.state.sheetUrl,
                          sheetName |-> server.state.sheetName])
    /\ UNCHANGED callVars

\* the sheets of a request as <<key, data>> pairs, in the key order of the
\* cachedSheets / fetchedSheets objects
Keys(pairs) == [k \in 1..Len(pairs) |-> pairs[k][1]]

\* obj[key] = data: an existing key keeps its place, a new key goes last
SetKey(pairs, key, data) ==
    IF \E k \in 1..Len(pairs) : pairs[k][1] = key
    THEN [k \in 1..Len(pairs) |->
            IF pairs[k][1] = key THEN <<key, data>> ELSE pairs[k]]
    ELSE Append(pairs, <<key, data>>)

\* { ...cachedSheets, ...fetchedSheets }
RECURSIVE Spread(_, _)
Spread(cachedSheets, fetchedSheets) ==
    IF fetchedSheets = <<>> THEN cachedSheets
    ELSE Spread(SetKey(cachedSheets, fetchedSheets[1][1], fetchedSheets[1][2]),
                Tail(fetchedSheets))

\* the worksheets one sheet contributes to the combined response
CombinedWorksheets(key, data) ==
    IF IsSome(data.error) /\ Val(data.error) # ""
    THEN <<[name        |-> <<"Error - ", key>>,
            topics      |-> <<>>,
            error       |-> data.error,
            sheetSource |-> None]>>
    ELSE [k \in 1..Len(data.worksheets) |->
            [name        |-> <<key, data.worksheets[k].name>>,
             topics      |-> data.worksheets[k].topics,
             error       |-> None,
             sheetSource |-> Some(key)]]

RECURSIVE CombineWorksheets(_)
CombineWorksheets(sheetsData) ==
    IF sheetsData = <<>> THEN <<>>
    ELSE CombinedWorksheets(sheetsData[1][1], sheetsData[1][2])
             \o CombineWorksheets(Tail(sheetsData))

\* combineSheetData(sheetsData)
CombineSheetData(sheetsData) ==
    [worksheets |-> CombineWorksheets(sheetsData),
     cached     |-> \A k \in 1..Len(sheetsData) :
                        IF IsSome(sheetsData[k][2].error) THEN TRUE
                        ELSE sheetsData[k][2].cached,
     sheets     |-> Keys(sheetsData)]

\* { ...combinedData, _message: 'Authentication required to refresh. ...' }
WithMessage(combinedData) ==
    [worksheets |-> combinedData.worksheets,
     cached     |-> combinedData.cached,
     sheets     |-> combinedData.sheets,
     message    |-> "Authentication required to refresh. Showing cached data."]

\* the cache-check loop: cachedSheets and missingSheets after the names
\* up to n
RECURSIVE CheckCache(_, _, _, _)
CheckCache(srv, sheetNames, forceRefresh, n) ==
    IF n = 0 THEN [cachedSheets |-> <<>>, missingSheets |-> <<>>]
    ELSE LET before     == CheckCache(srv, sheetNames, forceRefresh, n - 1)
             sheetName  == sheetNames[n]
             cachedData == GetCachedData(srv, sheetName)
         IN  IF IsSome(cachedData) /\ ~forceRefresh
             THEN [before EXCEPT !.cachedSheets =
                      SetKey(@, SheetKey(sheetName), Val(cachedData))]
             ELSE [before EXCEPT !.missingSheets = Append(@, sheetName)]

\* force refresh fetching every requested sheet
SheetsToFetchAll(forceRefresh, sheetNames, missingSheets) ==
    IF forceRefresh THEN sheetNames ELSE missingSheets

\* const sheetsToFetch = forceRefresh ? [sheetNames[0]] : missingSheets
SheetsToFetch(forceRefresh, sheetNames, missingSheets) ==
    IF forceRefresh THEN <<sheetNames[1]>> ELSE missingSheets

\* GET /api/sheet/data up to the cache check: the sheet names are parsed
\* and, when they differ from serverState.sheetName, saved with the state
DataReceive ==
    /\ server.handled < MaxRequests
    /\ ~IsSome(server.req)
    /\ \E param \in SheetNameParamPool, forceRefresh \in BOOLEAN :
          LET sheetNameParam == IF param # <<>> THEN param
                                ELSE server.state.sheetName
              sheetNames == ParseSheetNames(sheetNameParam)
              request == [forceRefresh  |-> forceRefresh,
                          sheetNames    |-> sheetNames,
                          at            |-> "cache",
                          authState     |-> AuthState(server),
                          invoked       |-> None,
                          cachedSheets  |-> <<>>,
                          sheetsToFetch |-> <<>>,
                          fetchedSheets |-> <<>>]
              received == [Receive(server) EXCEPT !.req = Some(request)]
          IN  server' = IF JoinNames(sheetNames) # server.state.sheetName
                        THEN SaveState([received EXCEPT
                                 !.state.sheetName = JoinNames(sheetNames)])
                        ELSE received
    /\ UNCHANGED callVars

\* the cache check and what follows it without a further await: the cached
\* response, the 401 of a server that is not authenticated, or the list of
\* sheets to fetch
DataCheck ==
    /\ IsSome(server.req)
    /\ Val(server.req).at = "cache"
    /\ LET request == Val(server.req)
           forceRefresh == request.forceRefresh
           check == CheckCache(server, request.sheetNames, forceRefresh,
                               Len(request.sheetNames))
           cachedSheets == check.cachedSheets
           missingSheets == check.missingSheets
           authState == AuthState(server)
       IN  server' =
             IF missingSheets = <<>> /\ ~forceRefresh
             THEN RespondData(server, 200, CombineSheetData(cachedSheets),
                              authState, request)
             ELSE IF ~IsAuthenticated(server)
             THEN IF cachedSheets # <<>> /\ missingSheets = <<>>
                  THEN RespondData(server, 200,
                                   WithMessage(CombineSheetData(cachedSheets)),
                                   authState, request)
                  ELSE RespondData(server, 401,
                                   [error  |-> "Authentication required",
                                    cached |-> FALSE],
                                   authState, request)
             ELSE [server EXCEPT !.req = Some([request EXCEPT
                      !.at = "fetch",
                      !.authState = authState,
                      !.invoked = Some(FetchState(server)),
                      !.cachedSheets = cachedSheets,
                      !.sheetsToFetch = SheetsToFetch(forceRefresh,
                                            request.sheetNames, missingSheets)])]
    /\ UNCHANGED callVars

\* one turn of the fetch loop: the readExcelFileAsync invoked for the sheet
\* returns, then transformVocabData and saveCache; a failure gives the sheet
\* an error entry.  With the turn's end the fetch of the next sheet is
\* invoked (the first one is invoked by the code that follows the check
\* without an await)
DataFetch ==
    /\ IsSome(server.req)
    /\ Val(server.req).at = "fetch"
    /\ Val(server.req).sheetsToFetch # <<>>
    /\ LET request   == Val(server.req)
           sheetName == Head(request.sheetsToFetch)
           key       == SheetKey(sheetName)
           invoked   == Val(request.invoked)
           hasToken  == IsSome(invoked.token) \/ invoked.graphToken
           next      == IF Tail(request.sheetsToFetch) # <<>>
                        THEN Some(FetchState(server)) ELSE None
       IN  \E read \in {None} \cup {Some(doc) : doc \in UpstreamPool} :
              /\ hasToken \/ read = None
              /\ server' =
                   IF IsSome(read)
                   THEN LET entry == CacheEntry(Val(read), server.handled)
                        IN  [server EXCEPT
                               !.cache[key] = Some(entry),
                               !.req = Some([request EXCEPT
                                   !.sheetsToFetch = Tail(@),
                                   !.invoked = next,
                                   !.fetchedSheets = SetKey(@, key,
                                       [error      |-> None,
                                        worksheets |-> entry.data,
                                        cached     |-> FALSE,
                                        at         |-> server.handled])])]
                   ELSE [server EXCEPT
                           !.req = Some([request EXCEPT
                               !.sheetsToFetch = Tail(@),
                               !.invoked = next,
                               !.fetchedSheets = SetKey(@, key,
                                   [error      |-> Some("Failed to fetch sheet"),
                                    worksheets |-> <<>>,
                                    cached     |-> FALSE,
                                    at         |-> server.handled])])]
    /\ UNCHANGED callVars

\* res.json(combineSheetData({ ...cachedSheets, ...fetchedSheets }))
DataRespond ==
    /\ IsSome(server.req)
    /\ Val(server.req).at = "fetch"
    /\ Val(server.req).sheetsToFetch = <<>>
    /\ LET request == Val(server.req)
       IN  server' = RespondData(server, 200,
                                 CombineSheetData(Spread(request.cachedSheets,
                                                         request.fetchedSheets)),
                                 request.authState, request)
    /\ UNCHANGED callVars

NextServer ==
    \/ LoadRead
    \/ LoadDone
    \/ TokenExpires
    \/ DeviceCodePrompt
    \/ UserSignsIn
    \/ AuthStatus
    \/ AuthStartBegin
    \/ AuthStartRespond
    \/ AuthPoll
    \/ SheetUrl
    \/ DataReceive
    \/ DataCheck
    \/ DataFetch
    \/ DataRespond

SpecServer == InitServer /\ [][NextServer]_vars

(***************************************************************************)
(* The caches in the storage: saveCache, saveStatsCache, clearCacheForUrl  *)
(* Each cache is one object of the storage, read whole by a get and        *)
(* written whole by a put.                                                 *)
(***************************************************************************)
MaxSaves == 2    \* data requests fetching a sheet at the same time

UrlPool == {"url-1", "url-2"}
CacheNames == <<"data", "stats", "metadata">>

\* an entry cache[sheetUrl][sheetName] of a cache object, with the number
\* of the request that wrote it in place of the timestamp (0: an earlier run)
Entry(sheetUrl, sheetName, stamp) == <<sheetUrl, sheetName, stamp>>

\* if (cache[sheetUrl])
HasUrl(cache, sheetUrl) == \E entry \in cache : entry[1] = sheetUrl

\* delete cache[sheetUrl]
DeleteUrl(cache, sheetUrl) == {entry \in cache : entry[1] # sheetUrl}

\* cache[sheetUrl][sheetName || 'default'] = { data, timestamp }
SetEntry(cache, sheetUrl, sheetName, stamp) ==
    {entry \in cache : ~(entry[1] = sheetUrl /\ entry[2] = sheetName)}
        \cup {Entry(sheetUrl, sheetName, stamp)}

\* a data request that has not started, and POST /api/sheet/url not received
IdleSave == [pc |-> "idle", sheetName |-> "", sheetUrl |-> "", cache |-> {}]
IdlePost == [pc |-> "idle", sheetUrl |-> "", old |-> "", n |-> 0, cache |-> {},
             before |-> [name \in {} |-> {}]]

\* the caches as earlier requests left them: the data, the statistics and
\* the sheet list of a url are cached together
InitCache ==
    /\ excelData = None
    /\ result = None
    /\ w = 0
    /\ rows = <<>>
    /\ i = 0
    /\ topics = <<>>
    /\ currentTopic = None
    /\ pc = "done"
    /\ other = NoCall
    /\ \E cachedUrls \in SUBSET UrlPool :
          LET cache == {Entry(url, "A", 0) : url \in cachedUrls}
          IN  server = [phase    |-> "cache",
                        sheetUrl |-> "url-1",
                        blobs    |-> [name \in {"data", "stats", "metadata"}
                                         |-> cache],
                        saves    |-> [p \in 1..MaxSaves |-> IdleSave],
                        post     |-> IdlePost]

\* GET /api/sheet/data reaches the fetch of a sheet: readExcelFileAsync is
\* awaited
FetchSheet(p) ==
    /\ server.saves[p].pc = "idle"
    /\ \E sheetName \in {"A", "B"} :
          server' = [server EXCEPT !.saves[p].pc = "fetch",
                                   !.saves[p].sheetName = sheetName]
    /\ UNCHANGED callVars

\* the fetch returns: saveCache(serverState.sheetUrl, structuredData,
\* sheetName) is called and awaits loadCache()
FetchReturns(p) ==
    /\ server.saves[p].pc = "fetch"
    /\ server' = [server EXCEPT !.saves[p].pc = "loadCache",
                                !.saves[p].sheetUrl = server.sheetUrl]
    /\ UNCHANGED callVars

\* saveCache: const cache = await loadCache() || {}
SaveCacheLoad(p) ==
    /\ server.saves[p].pc = "loadCache"
    /\ server' = [server EXCEPT !.saves[p].pc = "putCache",
                                !.saves[p].cache = server.blobs["data"]]
    /\ UNCHANGED callVars

\* saveCache: the entry is set in the object that was loaded and the object
\* is put; then saveStatsCache(serverState.sheetUrl, ...) is called
SaveCachePut(p) ==
    /\ server.saves[p].pc = "putCache"
    /\ LET save == server.saves[p]
       IN  server' = [server EXCEPT
                        !.blobs["data"] = SetEntry(save.cache, save.sheetUrl,
                                                   save.sheetName, p),
                        !.saves[p].pc = "loadStats",
                        !.saves[p].sheetUrl = server.sheetUrl]
    /\ UNCHANGED callVars

\* saveStatsCache: const statsCache = await loadStatsCache() || {}
SaveStatsLoad(p) ==
    /\ server.saves[p].pc = "loadStats"
    /\ server' = [server EXCEPT !.saves[p].pc = "putStats",
                                !.saves[p].cache = server.blobs["stats"]]
    /\ UNCHANGED callVars

\* saveStatsCache: the entry is set and the object is put; the fetch loop
\* of the request goes on
SaveStatsPut(p) ==
    /\ server.saves[p].pc = "putStats"
    /\ LET save == server.saves[p]
       IN  server' = [server EXCEPT
                        !.blobs["stats"] = SetEntry(save.cache, save.sheetUrl,
                                                    save.sheetName, p),
                        !.saves[p].pc = "done"]
    /\ UNCHANGED callVars

\* POST /api/sheet/url: a changed url starts clearCacheForUrl(old url), an
\* unchanged one goes on to set and save the state
PostSheetUrl ==
    /\ server.post.pc = "idle"
    /\ \E sheetUrl \in UrlPool :
          LET urlChanged == server.sheetUrl # sheetUrl
          IN  server' = [server EXCEPT
                 !.post = [pc       |-> IF urlChanged THEN "load" ELSE "saveState",
                           sheetUrl |-> sheetUrl,
                           old      |-> server.sheetUrl,
                           n        |-> 1,
                           cache    |-> {},
                           before   |-> server.blobs]]
    /\ UNCHANGED callVars

\* clearCacheForUrl goes on to its next cache; after the last one the
\* handler sets serverState.sheetUrl and awaits saveState
NextCache(srv) ==
    IF srv.post.n < Len(CacheNames)
    THEN [srv EXCEPT !.post.pc = "load", !.post.n = @ + 1]
    ELSE [srv EXCEPT !.post.pc = "saveState", !.sheetUrl = srv.post.sheetUrl]

\* clearCacheForUrl: a cache is loaded; without an entry of the url it is
\* left alone
ClearCacheLoad ==
    /\ server.post.pc = "load"
    /\ LET cache == server.blobs[CacheNames[server.post.n]]
       IN  server' = IF HasUrl(cache, server.post.old)
                     THEN [server EXCEPT !.post.pc = "put", !.post.cache = cache]
                     ELSE NextCache(server)
    /\ UNCHANGED callVars

\* clearCacheForUrl: delete cache[sheetUrl]; await put(...)
ClearCachePut ==
    /\ server.post.pc = "put"
    /\ server' = NextCache([server EXCEPT
                    !.blobs[CacheNames[server.post.n]] =
                        DeleteUrl(server.post.cache, server.post.old)])
    /\ UNCHANGED callVars

\* POST /api/sheet/url: the state is saved and the response sent
PostRespond ==
    /\ server.post.pc = "saveState"
    /\ server' = [server EXCEPT !.post.pc = "done"]
    /\ UNCHANGED callVars

NextCacheStep ==
    \/ \E p \in 1..MaxSaves :
          \/ FetchSheet(p)
          \/ FetchReturns(p)
          \/ SaveCacheLoad(p)
          \/ SaveCachePut(p)
          \/ SaveStatsLoad(p)
          \/ SaveStatsPut(p)
    \/ PostSheetUrl
    \/ ClearCacheLoad
    \/ ClearCachePut
    \/ PostRespond

SpecCache == InitCache /\ [][NextCacheStep]_vars

(***************************************************************************)
(* Vocabulary of the properties                                            *)
(***************************************************************************)
\* the worksheets of the returned / growing document
OutWorksheets ==
    IF ~IsSome(result) THEN <<>>
    ELSE IF ~IsSome(Val(result).worksheets) THEN <<>>
    ELSE Val(Val(result).worksheets)

\* positions of the output that hold a worksheet built by the parser
StructuredAt ==
    IF NoWorksheets(excelData) THEN {}
    ELSE {k \in 1..Len(OutWorksheets) : ~PassesThrough(Worksheets[k])}

\* parseTopics has returned: rows is its argument, topics its result
Parsed == pc = "statistics"

\* text of the cell at a 0-based column: "" for an absent, null or
\* out-of-range cell, the trimmed string form otherwise
CellText(row, col) ==
    IF ~IsSome(row) THEN <<>>
    ELSE IF col + 1 > Len(Val(row)) THEN <<>>
    ELSE IF Val(row)[col + 1].type = "null" THEN <<>>
    ELSE Trim(String(Val(row)[col + 1]))

\* absent row, zero cells, or only null / whitespace-only cells
BlankRow(row) ==
    IF ~IsSome(row) THEN TRUE
    ELSE \A k \in 1..Len(Val(row)) : CellText(row, k - 1) = <<>>

\* row 0 carries one of the header words
HeaderLike(row) ==
    \/ ToLowerCase(CellText(row, 0)) = <<"o","r","d","e","r">>
    \/ ToLowerCase(CellText(row, 1)) \in {<<"t","o","p","i","c">>,
                                         <<"s","e","s","s","i","o","n">>}

\* 1-based numbers of the rows of a grid that the parse pass visits
ParsedRows(grid) ==
    {r \in 1..Len(grid) : r > 1 \/ ~HeaderLike(grid[1])}

\* parsed rows whose column-B cell is non-empty
TopicStartRows(grid) == {r \in ParsedRows(grid) : CellText(grid[r], 1) # <<>>}

\* parsed rows whose column-D cell is non-empty
WordRows(grid) == {r \in ParsedRows(grid) : CellText(grid[r], 3) # <<>>}

Max(S) == CHOOSE x \in S : \A y \in S : y <= x
Min(S) == CHOOSE x \in S : \A y \in S : x <= y

RECURSIVE SumWords(_)
SumWords(ts) == IF ts = <<>> THEN 0 ELSE Len(Head(ts).words) + SumWords(Tail(ts))

\* (topic index, word index) of every word record of a topic sequence
WordAt(ts) ==
    UNION {{<<t, k>> : k \in 1..Len(ts[t].words)} : t \in 1..Len(ts)}

(***************************************************************************)
(* C1: for every worksheet with non-empty values and no error marker, the  *)
(* worksheet statistics' totalWords equals the sum of words.length over    *)
(* the topics of that worksheet.                                           *)
(***************************************************************************)
C1_TotalWordsIsSum ==
    \A k \in StructuredAt :
        OutWorksheets[k].statistics.totalWords = SumWords(OutWorksheets[k].topics)

C1_Witness ==
    \E k \in StructuredAt :
        /\ Len(OutWorksheets[k].topics) >= 2
        /\ \A t \in 1..Len(OutWorksheets[k].topics) :
               Len(OutWorksheets[k].topics[t].words) >= 1
        /\ OutWorksheets[k].statistics.totalWords = 3

(***************************************************************************)
(* C2: every word record is in the topic started by the nearest parsed row *)
(* at or above it whose column-B cell is non-empty; the word of a          *)
(* topic-start row goes to the topic that row starts.                      *)
(***************************************************************************)
C2_WordInNearestTopic ==
    Parsed =>
        \A p \in WordAt(topics) :
            LET topic == topics[p[1]]
                word  == topic.words[p[2]]
                above == {r \in TopicStartRows(rows) : r <= word.rowNumber}
            IN  above # {} =>
                    /\ topic.startRow = Max(above)
                    /\ topic.name = CellText(rows[Max(above)], 1)

C2_Witness ==
    /\ Parsed
    /\ Len(topics) = 2
    /\ Len(topics[1].words) = 1
    /\ Len(topics[2].words) = 2
    /\ topics[2].words[1].rowNumber = topics[2].startRow
    /\ topics[2].words[2].rowNumber = topics[2].startRow + 1
    /\ topics[1].name # Uncategorized

(***************************************************************************)
(* C3: rowNumber of every word record is the 1-based index of its source   *)
(* row in the original grid, whatever rows were skipped before it.         *)
(***************************************************************************)
C3_RowNumberIsGridIndex ==
    Parsed =>
        \A p \in WordAt(topics) :
            LET word == topics[p[1]].words[p[2]]
            IN  /\ word.rowNumber \in 1..Len(rows)
                /\ word.word = CellText(rows[word.rowNumber], 3)
                /\ word.flag = CellText(rows[word.rowNumber], 2)
                /\ word.order = CellText(rows[word.rowNumber], 0)

\* a header row and a blank row are skipped before the word of row 3
C3_Witness ==
    /\ Parsed
    /\ Len(rows) = 3
    /\ HeaderLike(rows[1])
    /\ BlankRow(rows[2])
    /\ \E p \in WordAt(topics) : topics[p[1]].words[p[2]].rowNumber = 3

(***************************************************************************)
(* C4: a row has a word record iff it is parsed and its column-D cell is   *)
(* non-empty after trimming, and then it has exactly one; a topic-start    *)
(* row with an empty word cell adds no word.                               *)
(***************************************************************************)
C4_OneWordPerWordRow ==
    Parsed =>
        \A r \in 1..Len(rows) :
            Cardinality({p \in WordAt(topics) :
                            topics[p[1]].words[p[2]].rowNumber = r})
                = IF r \in WordRows(rows) THEN 1 ELSE 0

\* a topic-start row without a word, followed by a word row
C4_Witness ==
    /\ Parsed
    /\ \E r \in TopicStartRows(rows) : r \notin WordRows(rows) /\ r + 1 \in WordRows(rows)
    /\ \E r \in TopicStartRows(rows) : r \in WordRows(rows)

(***************************************************************************)
(* C5: every parsed row with a non-empty column-B cell yields exactly one  *)
(* topic, named by the trimmed cell, with startRow its 1-based index; the  *)
(* open topic is pushed before the next one is opened, and a topic with    *)
(* zero words is emitted too.                                              *)
(***************************************************************************)
C5_OneTopicPerTopicRow ==
    pc \in {"parse", "statistics"} =>
        LET all    == LastTopic(topics, currentTopic)
            starts == {r \in TopicStartRows(rows) : r <= i}
        IN  /\ \A r \in starts :
                  /\ Cardinality({k \in 1..Len(all) : all[k].startRow = r}) = 1
                  /\ \A k \in 1..Len(all) :
                         all[k].startRow = r => all[k].name = CellText(rows[r], 1)
            /\ (pc = "parse" /\ starts # {}) =>
                  /\ IsSome(currentTopic)
                  /\ Val(currentTopic).startRow = Max(starts)
                  /\ \A r \in starts \ {Max(starts)} :
                         \E k \in 1..Len(topics) : topics[k].startRow = r

\* a topic without words has been pushed when the next topic was opened
C5_Witness ==
    /\ pc = "parse"
    /\ Len(topics) >= 1
    /\ topics[1].words = <<>>
    /\ topics[1].name # Uncategorized
    /\ IsSome(currentTopic)

\* parsed rows that lie above every topic-start row
AboveTopics(grid) ==
    {r \in ParsedRows(grid) : \A t \in TopicStartRows(grid) : r < t}

\* word rows that appear before any topic-start row
WordRowsAboveTopics(grid) == AboveTopics(grid) \cap WordRows(grid)

\* non-empty rows that appear before any topic-start row
DataRowsAboveTopics(grid) == {r \in AboveTopics(grid) : ~BlankRow(grid[r])}

RowNumbersOf(topic) == {topic.words[k].rowNumber : k \in 1..Len(topic.words)}

(***************************************************************************)
(* C6 (as stated): when word rows appear before any topic-start row, the   *)
(* first topic is "Uncategorized", its startRow is the index of the first  *)
(* such word row, and it holds the words of every row up to the first      *)
(* topic-start row.                                                        *)
(***************************************************************************)
C6_Original ==
    (Parsed /\ WordRowsAboveTopics(rows) # {}) =>
        /\ Len(topics) >= 1
        /\ topics[1].name = Uncategorized
        /\ topics[1].startRow = Min(WordRowsAboveTopics(rows))
        /\ RowNumbersOf(topics[1]) = WordRowsAboveTopics(rows)

(***************************************************************************)
(* C6 (amended): when word rows appear before any topic-start row, the     *)
(* first topic is "Uncategorized", its startRow is the index of the first  *)
(* non-empty parsed row (which need not carry a word), and it holds the    *)
(* words of every row up to the first topic-start row.                     *)
(***************************************************************************)
C6_UncategorizedFromFirstDataRow ==
    (Parsed /\ WordRowsAboveTopics(rows) # {}) =>
        /\ Len(topics) >= 1
        /\ topics[1].name = Uncategorized
        /\ topics[1].startRow = Min(DataRowsAboveTopics(rows))
        /\ RowNumbersOf(topics[1]) = WordRowsAboveTopics(rows)
        /\ Len(topics[1].words) = Cardinality(WordRowsAboveTopics(rows))

\* the Uncategorized topic starts on a row without a word, holds a word
\* of a later row and is followed by a named topic
C6_Witness ==
    /\ Parsed
    /\ Len(topics) = 2
    /\ topics[1].name = Uncategorized
    /\ Len(topics[1].words) = 1
    /\ topics[1].startRow < topics[1].words[1].rowNumber
    /\ topics[2].startRow \in TopicStartRows(rows)

(***************************************************************************)
(* C7 (as stated): a topic is in the output only if a row with a non-empty *)
(* topic-name cell was met or, for "Uncategorized", only if a row with a   *)
(* non-empty word cell appears before any topic marker.                    *)
(***************************************************************************)
C7_Original ==
    Parsed =>
        \A k \in 1..Len(topics) :
            \/ topics[k].startRow \in TopicStartRows(rows)
            \/ /\ topics[k].name = Uncategorized
               /\ WordRowsAboveTopics(rows) # {}

(***************************************************************************)
(* C7 (amended): a topic is in the output only if a row with a non-empty   *)
(* topic-name cell was met or, for "Uncategorized", only if a non-empty    *)
(* row with an empty topic-name cell (with or without a word) appears      *)
(* before any topic marker.                                                *)
(***************************************************************************)
C7_TopicOrigin ==
    Parsed =>
        \A k \in 1..Len(topics) :
            \/ /\ topics[k].startRow \in TopicStartRows(rows)
               /\ topics[k].name = CellText(rows[topics[k].startRow], 1)
            \/ /\ topics[k].name = Uncategorized
               /\ k = 1
               /\ DataRowsAboveTopics(rows) # {}
               /\ topics[k].startRow = Min(DataRowsAboveTopics(rows))

\* an "Uncategorized" topic without any word, before a named topic
C7_Witness ==
    /\ Parsed
    /\ Len(topics) = 2
    /\ topics[1].name = Uncategorized
    /\ topics[1].words = <<>>
    /\ WordRowsAboveTopics(rows) = {}
    /\ topics[2].startRow \in TopicStartRows(rows)

(***************************************************************************)
(* C8: row 0 is excluded from parsing exactly when its first cell is       *)
(* "order" or its second cell is "topic" or "session" (case-insensitive,   *)
(* trimmed); a skipped header row contributes no topic and no word; rows   *)
(* other than row 0 are parsed even when they look like a header.          *)
(***************************************************************************)
C8_HeaderOnlyRowZero ==
    pc \in {"parse", "statistics"} =>
        LET all == LastTopic(topics, currentTopic)
            Contributes(r) ==
                \/ \E k \in 1..Len(all) : all[k].startRow = r
                \/ \E k \in 1..Len(all) : r \in RowNumbersOf(all[k])
            Carries(r) ==
                CellText(rows[r], 1) # <<>> \/ CellText(rows[r], 3) # <<>>
        IN  /\ (Len(rows) >= 1 /\ HeaderLike(rows[1])) => ~Contributes(1)
            /\ (pc = "parse" /\ Len(rows) >= 1 /\ HeaderLike(rows[1])) => i >= 1
            /\ \A r \in 1..i :
                   (Carries(r) /\ (r > 1 \/ ~HeaderLike(rows[1]))) => Contributes(r)

\* a header in row 0 is skipped, a header-looking row 1 starts a topic
C8_Witness ==
    /\ Parsed
    /\ Len(rows) >= 2
    /\ HeaderLike(rows[1])
    /\ HeaderLike(rows[2])
    /\ Len(topics) = 1
    /\ topics[1].startRow = 2
    /\ Len(topics[1].words) >= 1

(***************************************************************************)
(* C9: processing an empty row (absent, zero cells, or only null or        *)
(* whitespace-only cells) changes neither the output topic sequence nor    *)
(* the current topic.                                                      *)
(***************************************************************************)
C9_EmptyRowNoChange ==
    [][(pc = "parse" /\ i < Len(rows) /\ BlankRow(rows[i + 1]))
          => (topics' = topics /\ currentTopic' = currentTopic)]_vars

\* an empty row has just been processed while a topic with a word is open
\* and another topic is already in the output
C9_Witness ==
    /\ pc = "parse"
    /\ i >= 3
    /\ BlankRow(rows[i])
    /\ IsSome(currentTopic)
    /\ Len(Val(currentTopic).words) >= 1
    /\ Len(topics) >= 1

\* the grid without the rows whose 1-based numbers are in S
RECURSIVE RemoveRows(_, _)
RemoveRows(grid, S) ==
    IF grid = <<>> THEN <<>>
    ELSE LET front == RemoveRows(SubSeq(grid, 1, Len(grid) - 1), S)
         IN  IF Len(grid) \in S THEN front ELSE Append(front, grid[Len(grid)])

BlankRowsOf(grid) == {r \in 1..Len(grid) : BlankRow(grid[r])}

\* a word record without its row number
WordContent(word) ==
    [order           |-> word.order,
     flag            |-> word.flag,
     word            |-> word.word,
     partOfSpeech    |-> word.partOfSpeech,
     pronunciation   |-> word.pronunciation,
     meaning         |-> word.meaning,
     exampleSentence |-> word.exampleSentence,
     synonyms        |-> word.synonyms,
     dayOfWeek       |-> word.dayOfWeek,
     date            |-> word.date]

\* topic names, the words of each topic and all statistics, without the
\* row numbers (rowNumber, startRow)
Content(ts) ==
    [topics     |-> [k \in 1..Len(ts) |->
                        [name       |-> ts[k].name,
                         words      |-> [j \in 1..Len(ts[k].words) |->
                                            WordContent(ts[k].words[j])],
                         statistics |-> CalculateTopicStatistics(<<ts[k]>>)]],
     statistics |-> CalculateStatistics(ts)]

(***************************************************************************)
(* C10 (as stated): for any grid and blank rows at any positions in it,    *)
(* removing the blank rows changes only row numbers: topic names, the      *)
(* words of each topic and all statistics stay the same.                   *)
(***************************************************************************)
C10_Original ==
    Parsed =>
        \A S \in SUBSET BlankRowsOf(rows) :
            Content(ParseTopics(RemoveRows(rows, S))) = Content(topics)

(***************************************************************************)
(* C10 (amended): removing blank rows changes only row numbers, provided   *)
(* the removal does not bring a header-looking row to position 0 (row 0    *)
(* is kept, or the new row 0 does not look like a header); a header-       *)
(* looking row below leading blank rows is parsed as data in the original  *)
(* grid and skipped once the blank rows above it are removed.              *)
(***************************************************************************)
C10_BlankRowsContributeNothing ==
    Parsed =>
        \A S \in SUBSET BlankRowsOf(rows) :
            LET reduced == RemoveRows(rows, S)
                exposesHeader ==
                    IF 1 \in S /\ Len(reduced) >= 1 THEN HeaderLike(reduced[1])
                    ELSE FALSE
            IN  ~exposesHeader => Content(ParseTopics(reduced)) = Content(topics)

\* a blank row between a topic-start row and a word row of that topic
C10_Witness ==
    /\ Parsed
    /\ Len(rows) = 3
    /\ BlankRow(rows[2])
    /\ Len(topics) = 1
    /\ topics[1].startRow \in TopicStartRows(rows)
    /\ RowNumbersOf(topics[1]) = {1, 3}

\* number of word records of a topic sequence whose flag, trimmed and
\* lower-cased, is f
FlagCount(ts, f) ==
    Cardinality({p \in WordAt(ts) :
                    Trim(ToLowerCase(ts[p[1]].words[p[2]].flag)) = f})

(***************************************************************************)
(* C11: every word counts once in totalWords; its flag, trimmed and        *)
(* lower-cased, increments exactly one byFlag bucket when it is n (new),   *)
(* y (known), ? (forgotten) or ok (learned), and no bucket otherwise,      *)
(* the empty flag included.                                                *)
(***************************************************************************)
C11_FlagBuckets ==
    \A k \in StructuredAt :
        LET ts    == OutWorksheets[k].topics
            stats == OutWorksheets[k].statistics
        IN  /\ stats.totalWords = Cardinality(WordAt(ts))
            /\ stats.byFlag.new = FlagCount(ts, <<"n">>)
            /\ stats.byFlag.known = FlagCount(ts, <<"y">>)
            /\ stats.byFlag.forgotten = FlagCount(ts, <<"?">>)
            /\ stats.byFlag.learned = FlagCount(ts, <<"o","k">>)

\* three words: flag "N", no flag, and an unknown flag
C11_Witness ==
    \E k \in StructuredAt :
        LET ts    == OutWorksheets[k].topics
            stats == OutWorksheets[k].statistics
        IN  /\ stats.totalWords = 3
            /\ stats.byFlag = [new |-> 1, known |-> 0, forgotten |-> 0, learned |-> 0]
            /\ \E p \in WordAt(ts) : ts[p[1]].words[p[2]].flag = <<"N">>
            /\ \E p \in WordAt(ts) : ts[p[1]].words[p[2]].flag = <<>>
            /\ \E p \in WordAt(ts) : ts[p[1]].words[p[2]].flag = <<"x">>

\* the worksheet carries an error marker: an error field holding a message
HasErrorMarker(worksheet) ==
    IF IsSome(worksheet.error) THEN Val(worksheet.error) # "" ELSE FALSE

\* the values grid of the worksheet is absent or has no row
NoValues(worksheet) ==
    IF IsSome(worksheet.values) THEN Val(worksheet.values) = <<>> ELSE TRUE

\* C12: a worksheet with an error marker, or with absent or empty values,
\* stands unchanged at its own position of the output worksheets, and the
\* parser is never entered for it -- also when it has both an error marker
\* and a non-empty values grid.
C12_ErroredOrEmptyPassesThrough ==
    ~NoWorksheets(excelData) =>
        /\ \A k \in 1..Len(OutWorksheets) :
               (HasErrorMarker(Worksheets[k]) \/ NoValues(Worksheets[k]))
                   => OutWorksheets[k] = Worksheets[k]
        /\ pc \in {"parse", "statistics"} =>
               /\ ~HasErrorMarker(Worksheets[w + 1])
               /\ ~NoValues(Worksheets[w + 1])

\* a returned document whose first worksheet was parsed and whose second
\* worksheet, with an error marker and a non-empty grid, was passed through
C12_Witness ==
    /\ pc = "done"
    /\ ~NoWorksheets(excelData)
    /\ Len(Worksheets) = 2
    /\ Len(OutWorksheets) = 2
    /\ 1 \in StructuredAt
    /\ HasErrorMarker(Worksheets[2])
    /\ ~NoValues(Worksheets[2])
    /\ OutWorksheets[2] = Worksheets[2]

\* the input is absent, has no worksheets field, or has zero worksheets
WithoutWorksheets(data) ==
    IF data = None THEN TRUE
    ELSE IF Val(data).worksheets = None THEN TRUE
    ELSE Val(Val(data).worksheets) = <<>>

\* C13: when the input is absent, has no worksheets field or has zero
\* worksheets, transformVocabData returns the input itself: the same value,
\* no field added or removed.
C13_NoWorksheetsReturnsInput ==
    (pc = "done" /\ WithoutWorksheets(excelData)) => result = excelData

\* a document with metadata and no worksheets field has been returned
C13_Witness ==
    /\ pc = "done"
    /\ excelData # None
    /\ Val(excelData).worksheets = None
    /\ Val(excelData)._cached = Some(FALSE)
    /\ result = excelData

\* C14: each of _cached, _cachedAt and _fetchedAt is carried over to the
\* returned document with the same value when the input has it (_cached =
\* false included) and is absent from the returned document when the input
\* lacks it.
C14_MetadataCarriedOver ==
    (pc = "done" /\ excelData # None) =>
        /\ Val(result)._cached = Val(excelData)._cached
        /\ Val(result)._cachedAt = Val(excelData)._cachedAt
        /\ Val(result)._fetchedAt = Val(excelData)._fetchedAt

\* C15: on grids whose rows are absent, empty or shorter than 11 cells and
\* whose cells are strings, numbers, booleans or null, the call never ends
\* in a TypeError; every step of the parse loop consumes one row and the
\* loop is left only past the last row; and the returned document holds, for
\* every parsed worksheet, the whole topic list of its grid and the
\* statistics of that list.
C15_NeverFails ==
    /\ [](pc # "error")
    /\ []((pc = "done" /\ ~NoWorksheets(excelData)) =>
           /\ Len(OutWorksheets) = Len(Worksheets)
           /\ \A k \in StructuredAt :
                  LET ts == ParseTopics(Val(Worksheets[k].values))
                  IN  /\ OutWorksheets[k].topics
                             = [t \in 1..Len(ts) |-> WithStatistics(ts[t])]
                      /\ OutWorksheets[k].statistics = CalculateStatistics(ts))
    /\ [][pc = "parse" =>
             \/ pc' = "parse" /\ i' = i + 1 /\ i' <= Len(rows)
             \/ pc' = "statistics" /\ i = Len(rows)]_vars

\* a grid with an absent row, a row without cells and a short row has
\* been transformed and returned
C15_Witness ==
    /\ pc = "done"
    /\ 1 \in StructuredAt
    /\ \E a, b, c \in 1..Len(Val(Worksheets[1].values)) :
           LET grid == Val(Worksheets[1].values)
           IN  /\ grid[a] = RowAbsent
               /\ grid[b] = RowNoCells
               /\ grid[c] = RowScalar

\* C16: the statistics of a structured worksheet report totalTopics = the
\* number of its topics; every topic has a statistics field with
\* totalWords and byFlag and no totalTopics, counted over the topic's own
\* words only.
C16_TopicStatistics ==
    \A k \in StructuredAt :
        LET ts == OutWorksheets[k].topics
        IN  /\ OutWorksheets[k].statistics.totalTopics = Len(ts)
            /\ \A t \in 1..Len(ts) :
                   LET own == <<ts[t]>>
                       st  == ts[t].statistics
                   IN  /\ DOMAIN st = {"totalWords", "byFlag"}
                       /\ st.totalWords = Len(ts[t].words)
                       /\ st.byFlag.new = FlagCount(own, <<"n">>)
                       /\ st.byFlag.known = FlagCount(own, <<"y">>)
                       /\ st.byFlag.forgotten = FlagCount(own, <<"?">>)
                       /\ st.byFlag.learned = FlagCount(own, <<"o", "k">>)

\* a structured worksheet of two topics with different word counts and
\* different flag counts
C16_Witness ==
    \E k \in StructuredAt :
        LET ts == OutWorksheets[k].topics
        IN  /\ Len(ts) = 2
            /\ OutWorksheets[k].statistics.totalTopics = 2
            /\ ts[1].statistics.totalWords = 2
            /\ ts[2].statistics.totalWords = 1
            /\ ts[1].statistics.byFlag # ts[2].statistics.byFlag

\* C17: during a parse pass the sequence of pushed topics only grows at its
\* end: every step keeps the topics already pushed, unchanged and at their
\* positions.  In the returned list every topic-start row has a topic of its
\* own, and these topics stand in the order of their rows -- two rows with
\* the same topic name give two separate topics.
C17_AppendOnly ==
    /\ [][pc = "parse" =>
             /\ Len(topics') >= Len(topics)
             /\ SubSeq(topics', 1, Len(topics)) = topics]_vars
    /\ [](Parsed =>
             /\ \A r \in TopicStartRows(rows) :
                    \E k \in 1..Len(topics) : topics[k].startRow = r
             /\ \A a, b \in 1..Len(topics) :
                    a < b => topics[a].startRow < topics[b].startRow)

\* three topics have been returned, the first two with the same name
C17_Witness ==
    /\ Parsed
    /\ Len(topics) = 3
    /\ topics[1].name = topics[2].name
    /\ topics[1].name # Uncategorized
    /\ topics[1].startRow # topics[2].startRow

\* the permutations of 1..n
IndexPermutations(n) ==
    {p \in [1..n -> 1..n] : \A a, b \in 1..n : p[a] = p[b] => a = b}

Reorder(seq, p) == [k \in 1..Len(seq) |-> seq[p[k]]]

\* the counts of a statistics record
Counts(stats) == [totalWords |-> stats.totalWords, byFlag |-> stats.byFlag]

\* C18: calculateStatistics over the topics of a transformed worksheet gives
\* the statistics stored on the worksheet; totalWords and every byFlag
\* bucket stay the same under every reordering of the topics and under
\* every reordering of the words of a topic.
C18_AggregationOrderIndependent ==
    \A k \in StructuredAt :
        LET ts    == OutWorksheets[k].topics
            stats == OutWorksheets[k].statistics
        IN  /\ CalculateStatistics(ts) = stats
            /\ \A p \in IndexPermutations(Len(ts)) :
                   Counts(CalculateStatistics(Reorder(ts, p))) = Counts(stats)
            /\ \A t \in 1..Len(ts) :
                   \A q \in IndexPermutations(Len(ts[t].words)) :
                       Counts(CalculateStatistics(
                           [ts EXCEPT ![t].words = Reorder(@, q)])) = Counts(stats)

\* a transformed worksheet with two topics, one of them with two words of
\* different flags, one counted and one not
C18_Witness ==
    \E k \in StructuredAt :
        LET ts == OutWorksheets[k].topics
        IN  /\ Len(ts) = 2
            /\ \E t \in 1..2 :
                   /\ Len(ts[t].words) = 2
                   /\ NormalFlag(ts[t].words[1]) = <<"y">>
                   /\ NormalFlag(ts[t].words[2]) = <<>>
            /\ OutWorksheets[k].statistics.byFlag.known >= 1

\* the 0-based column each field of a word record is read from
FieldColumn ==
    [order |-> 0, flag |-> 2, word |-> 3, partOfSpeech |-> 4,
     pronunciation |-> 5, meaning |-> 6, exampleSentence |-> 7,
     synonyms |-> 8, dayOfWeek |-> 9, date |-> 10]

\* C19: every field of a word record other than rowNumber is the text of the
\* cell at the field's fixed column in the record's source row: the empty
\* string for an absent, null or out-of-range cell, the trimmed string form
\* of the cell otherwise.
C19_FieldsFromFixedColumns ==
    pc \in {"parse", "statistics"} =>
        LET all == LastTopic(topics, currentTopic)
        IN  \A p \in WordAt(all) :
                LET word == all[p[1]].words[p[2]]
                IN  /\ DOMAIN word = DOMAIN FieldColumn \cup {"rowNumber"}
                    /\ \A f \in DOMAIN FieldColumn :
                           word[f] = CellText(rows[word.rowNumber], FieldColumn[f])

\* the parse has produced a record from a row with all eleven columns and a
\* record from a row that ends at column D
C19_Witness ==
    /\ Parsed
    /\ \E p, q \in WordAt(topics) :
           LET full  == topics[p[1]].words[p[2]]
               short == topics[q[1]].words[q[2]]
           IN  /\ full.date = <<"2", "/", "9">>
               /\ full.order = <<"1", "3">>
               /\ full.exampleSentence = <<"A", " ", "f", "i", "g", ".">>
               /\ Len(Val(rows[short.rowNumber])) = 4
               /\ short.flag = <<>>
               /\ short.date = <<>>

\* C20: when two calls of transformVocabData on different inputs run
\* interleaved step by step, in any order, each returns the document it
\* returns when it runs alone.
C20_CallsDoNotInterfere ==
    /\ pc # "error"
    /\ other.pc # "error"
    /\ pc = "done" => result = TransformVocabData(excelData)
    /\ other.pc = "done" => other.result = TransformVocabData(other.excelData)

\* the first call has returned a parsed worksheet while the second call is
\* in the middle of its parse loop with an open topic of its own
C20_Witness ==
    /\ pc = "done"
    /\ 1 \in StructuredAt
    /\ result = TransformVocabData(excelData)
    /\ other.pc = "parse"
    /\ other.i = 1
    /\ IsSome(other.currentTopic)
    /\ other.excelData # excelData

\* C21: no step of transformVocabData changes its input: the input
\* document, each of its worksheets, parsed or passed through, and every
\* cell of every values grid stay what they were at the call.
C21_InputUnchanged == [][excelData' = excelData]_vars

\* a call has returned a document whose first worksheet was passed through
\* and whose second worksheet was parsed; the input still holds the grid
C21_Witness ==
    /\ pc = "done"
    /\ ~NoWorksheets(excelData)
    /\ Len(Worksheets) = 2
    /\ Len(OutWorksheets) = 2
    /\ StructuredAt = {2}
    /\ OutWorksheets[1] = Worksheets[1]
    /\ Val(Worksheets[2].values) = <<RowTopicWord, RowWord>>
    /\ Len(OutWorksheets[2].topics) = 1

\* the last response, when it answers GET /api/sheet/data
DataResponse ==
    IF IsSome(server.response)
    THEN Val(server.response).route = "GET /api/sheet/data"
    ELSE FALSE

\* the server holds a token whose expiry is more than five minutes ahead
LiveToken(authState) ==
    /\ authState.token # None
    /\ authState.expiresOn # None
    /\ authState.beforeExpiry

\* the keys of the sheets a request names
RequestedKeys(request) ==
    {SheetKey(request.sheetNames[k]) : k \in 1..Len(request.sheetNames)}

AuthenticationFields ==
    {"authenticated", "token", "expiresOn", "deviceCode", "userCode",
     "verificationUri", "clientId", "clientSecret"}

\* C23: no response body contains the access token, the device code or the
\* client secret, whether as a field or as the value of another field; the
\* only authentication values a body carries are the authenticated flag,
\* userCode and verificationUri.
C23_NoSecretInResponse ==
    IsSome(server.response) =>
        LET body == Val(server.response).body
        IN  /\ DOMAIN body \cap AuthenticationFields
                   \subseteq {"authenticated", "userCode", "verificationUri"}
            /\ \A field \in DOMAIN body \cap {"userCode", "verificationUri"} :
                   IsSome(body[field]) => Val(body[field]) \notin Secrets
            /\ \A field \in DOMAIN body \cap {"error", "sheetUrl"} :
                   body[field] \notin Secrets
            /\ "authenticated" \in DOMAIN body => body.authenticated \in BOOLEAN

\* GET /api/auth/status has answered with the user code while serverState
\* holds the device code of the flow in progress
C23_Witness ==
    /\ IsSome(server.response)
    /\ Val(server.response).route = "GET /api/auth/status"
    /\ Val(server.response).body.userCode = Some("user-code-1")
    /\ server.state.deviceCode = Some(DeviceCode)
    /\ server.store # None
    /\ Val(server.store).deviceCode = Some(DeviceCode)

\* the token of the state held by the store, None when the store holds no
\* state or a state without a token
StoredToken(srv) ==
    IF IsSome(srv.store) THEN Val(srv.store).token ELSE None

\* the step receives a request other than POST /api/auth/start, which asks
\* for the token to be dropped
ReceivesRequest ==
    /\ server'.handled = server.handled + 1
    /\ ~(server'.authStart /\ ~server.authStart)

\* C24: the token saved to the store before a restart persists: no request
\* handled while the state load is pending replaces the stored token by the
\* null token of the default state.
C24_TokenSurvivesRestart ==
    [][(ReceivesRequest /\ IsSome(StoredToken(server)) /\ server.load # "done")
          => StoredToken(server') = StoredToken(server)]_vars

\* a force-refresh request that names several sheets is in progress
RefreshOfSeveral(srv) ==
    IF IsSome(srv.req)
    THEN Val(srv.req).forceRefresh /\ Len(Val(srv.req).sheetNames) > 1
    ELSE FALSE

\* C25: while a force-refresh request naming several sheets is handled, only
\* the first named sheet is fetched and re-cached: no step changes the cache
\* entry of another sheet, only the first name is ever waiting to be fetched,
\* and a fetched entry is the first sheet's and is the one put in the cache.
C25_RefreshFetchesFirstOnly ==
    [][RefreshOfSeveral(server) =>
          LET request == Val(server.req)
              first   == SheetKey(request.sheetNames[1])
          IN  /\ \A key \in CacheKeys \ {first} :
                     server'.cache[key] = server.cache[key]
              /\ \A k \in 1..Len(request.sheetsToFetch) :
                     request.sheetsToFetch[k] = request.sheetNames[1]
              /\ \A k \in 1..Len(request.fetchedSheets) :
                     request.fetchedSheets[k][1] = first
              /\ server'.cache[first] # server.cache[first]
                     => /\ IsSome(server'.req)
                        /\ Keys(Val(server'.req).fetchedSheets) = <<first>>
                        /\ Val(server'.req).fetchedSheets[1][2].worksheets
                               = Val(server'.cache[first]).data]_vars

\* a refresh naming A and B has been answered: A was fetched and re-cached
\* during the request, B keeps the entry it had before
C25_Witness ==
    /\ DataResponse
    /\ Val(server.response).status = 200
    /\ Val(server.response).request.forceRefresh
    /\ Val(server.response).request.sheetNames = <<<<"A">>, <<"B">>>>
    /\ Keys(Val(server.response).request.fetchedSheets) = <<<<"A">>>>
    /\ IsSome(server.cache[<<"A">>])
    /\ Val(server.cache[<<"A">>]).timestamp = server.handled
    /\ IsSome(server.cache[<<"B">>])
    /\ Val(server.cache[<<"B">>]).timestamp = 0

\* the combined response holds worksheets of the sheet or an error entry
\* for it
Covers(body, key) ==
    /\ \E k \in 1..Len(body.sheets) : body.sheets[k] = key
    /\ \E k \in 1..Len(body.worksheets) :
           \/ body.worksheets[k].sheetSource = Some(key)
           \/ /\ IsSome(body.worksheets[k].error)
              /\ body.worksheets[k].name = <<"Error - ", key>>

\* C26: every 200 response of GET /api/sheet/data covers every sheet the
\* request names, by the sheet's worksheets or by an error entry for it,
\* for refresh and non-refresh requests alike.
C26_ResponseCoversRequestedSheets ==
    (DataResponse /\ Val(server.response).status = 200) =>
        \A key \in RequestedKeys(Val(server.response).request) :
            Covers(Val(server.response).body, key)

\* the sum over the topics of one counter of their statistics
RECURSIVE SumTopicStatistics(_, _)
SumTopicStatistics(ts, counter) ==
    IF ts = <<>> THEN 0
    ELSE (IF counter = "totalWords" THEN Head(ts).statistics.totalWords
          ELSE Head(ts).statistics.byFlag[counter])
         + SumTopicStatistics(Tail(ts), counter)

\* C27: in every structured worksheet the topics' statistics add up to the
\* worksheet's statistics: the sum of topic.statistics.totalWords is the
\* worksheet's totalWords, and likewise for each of the four flag counters.
C27_TopicStatisticsAddUp ==
    \A k \in StructuredAt :
        LET ts    == OutWorksheets[k].topics
            stats == OutWorksheets[k].statistics
        IN  /\ SumTopicStatistics(ts, "totalWords") = stats.totalWords
            /\ \A counter \in DOMAIN ZeroByFlag :
                   SumTopicStatistics(ts, counter) = stats.byFlag[counter]

\* two topics that both count a new word, the second also a known one
C27_Witness ==
    \E k \in StructuredAt :
        LET ts    == OutWorksheets[k].topics
            stats == OutWorksheets[k].statistics
        IN  /\ Len(ts) = 2
            /\ ts[1].statistics.byFlag.new = 1
            /\ ts[2].statistics.byFlag.new = 1
            /\ ts[2].statistics.byFlag.known = 1
            /\ stats.byFlag.new = 2
            /\ stats.totalWords = 3

\* C28: the topics returned by parseTopics cut the word rows into consecutive
\* row ranges: startRow is strictly increasing along the topics, every word's
\* rowNumber is at least its topic's startRow and less than the next topic's
\* startRow, and rowNumber is strictly increasing inside a topic.
C28_TopicsAreRowRanges ==
    Parsed =>
        /\ \A t \in 1..(Len(topics) - 1) :
               topics[t].startRow < topics[t + 1].startRow
        /\ \A p \in WordAt(topics) :
               LET topic == topics[p[1]]
                   word  == topic.words[p[2]]
               IN  /\ word.rowNumber >= topic.startRow
                   /\ p[1] < Len(topics)
                          => word.rowNumber < topics[p[1] + 1].startRow
                   /\ p[2] < Len(topic.words)
                          => word.rowNumber < topic.words[p[2] + 1].rowNumber

\* a topic of two words is followed by a topic that starts on the next row
C28_Witness ==
    /\ Parsed
    /\ Len(topics) = 2
    /\ Len(topics[1].words) = 2
    /\ topics[1].words[1].rowNumber = topics[1].startRow
    /\ topics[1].words[2].rowNumber = topics[1].startRow + 1
    /\ topics[2].startRow = topics[1].startRow + 2
    /\ Len(topics[2].words) = 1

\* positions of the topics named "Uncategorized" that no topic-start row
\* of the grid opened
SyntheticTopics(grid, ts) ==
    {t \in 1..Len(ts) : /\ ts[t].name = Uncategorized
                         /\ ts[t].startRow \notin TopicStartRows(grid)}

\* C29: a parse pass creates at most one synthetic "Uncategorized" topic, and
\* when there is one it is the first topic of the output; once a topic is
\* open, a row with an empty column B opens no new topic: the open topic
\* stays the current one and no topic is pushed.
C29_OneUncategorizedFirst ==
    /\ [](Parsed =>
             /\ Cardinality(SyntheticTopics(rows, topics)) <= 1
             /\ SyntheticTopics(rows, topics) \subseteq {1})
    /\ [][(pc = "parse" /\ i < Len(rows) /\ IsSome(currentTopic)
              /\ CellText(rows[i + 1], 1) = <<>>)
             => /\ topics' = topics
                /\ IsSome(currentTopic')
                /\ Val(currentTopic').name = Val(currentTopic).name
                /\ Val(currentTopic').startRow = Val(currentTopic).startRow]_vars

\* "Uncategorized" holds the word of row 1, the topic of row 2 also holds the
\* word of row 3, whose column B is empty
C29_Witness ==
    /\ Parsed
    /\ Len(rows) = 3
    /\ Len(topics) = 2
    /\ SyntheticTopics(rows, topics) = {1}
    /\ Len(topics[1].words) = 1
    /\ topics[2].startRow = 2
    /\ CellText(rows[3], 1) = <<>>
    /\ Len(topics[2].words) = 2

\* C30: transformVocabData is idempotent on documents: applied to a document
\* it has returned, it returns a document equal to it -- the structured
\* worksheets carry no values grid and pass through, the passed-through ones
\* pass through again, the metadata is carried over as before.
C30_Idempotent ==
    pc = "done" =>
        LET again == RunAlone(CallEntry(result))
        IN  /\ again.pc = "done"
            /\ again.result = result
            /\ TransformVocabData(TransformVocabData(excelData))
                   = TransformVocabData(excelData)

\* the returned document differs from the input: a structured worksheet
\* with a topic beside a passed-through worksheet with its error, the
\* _cached flag carried over and a falsy _fetchedAt dropped
C30_Witness ==
    /\ pc = "done"
    /\ ~NoWorksheets(excelData)
    /\ result # excelData
    /\ Len(OutWorksheets) = 2
    /\ StructuredAt = {1}
    /\ Len(OutWorksheets[1].topics) = 1
    /\ "values" \notin DOMAIN OutWorksheets[1]
    /\ Truthy(OutWorksheets[2].error)
    /\ IsSome(OutWorksheets[2].values)
    /\ IsSome(Val(result)._cached)
    /\ Val(excelData)._fetchedAt = Some("")
    /\ Val(result)._fetchedAt = None

\* C31: for an input with at least one worksheet the output worksheets follow
\* the input worksheets one to one: after w worksheets are handled the output
\* holds w worksheets, the k-th with the name of the k-th input worksheet and,
\* when it was parsed, with its range, rowCount and columnCount; the returned
\* document has as many worksheets as the input.
C31_WorksheetsOneToOne ==
    ~NoWorksheets(excelData) =>
        /\ Len(OutWorksheets) = w
        /\ \A k \in 1..Len(OutWorksheets) :
               /\ k <= Len(Worksheets)
               /\ OutWorksheets[k].name = Worksheets[k].name
               /\ k \in StructuredAt =>
                      /\ OutWorksheets[k].range = Worksheets[k].range
                      /\ OutWorksheets[k].rowCount = Worksheets[k].rowCount
                      /\ OutWorksheets[k].columnCount = Worksheets[k].columnCount
        /\ pc = "done" => Len(OutWorksheets) = Len(Worksheets)

\* two parsed worksheets of different grids have been returned, each under
\* the name of its input worksheet
C31_Witness ==
    /\ pc = "done"
    /\ ~NoWorksheets(excelData)
    /\ Len(Worksheets) = 2
    /\ StructuredAt = {1, 2}
    /\ Worksheets[1].values # Worksheets[2].values
    /\ OutWorksheets[1].name = "Sheet1"
    /\ OutWorksheets[2].name = "Sheet2"
    /\ OutWorksheets[1].topics # OutWorksheets[2].topics

\* the grid has at least one row and holds only blank rows, or is a single
\* header row
OnlyBlankOrHeader(grid) ==
    /\ Len(grid) >= 1
    /\ \/ \A r \in 1..Len(grid) : BlankRow(grid[r])
       \/ Len(grid) = 1 /\ HeaderLike(grid[1])

\* C32: a worksheet without error marker whose grid has at least one row but
\* only blank rows, or only a header row, is not passed through: its output
\* is a structured worksheet with no topic and with statistics totalTopics 0,
\* totalWords 0 and every flag counter 0.
C32_BlankGridGivesEmptyStructure ==
    \A k \in 1..Len(OutWorksheets) :
        (/\ ~HasErrorMarker(Worksheets[k])
         /\ ~NoValues(Worksheets[k])
         /\ OnlyBlankOrHeader(Val(Worksheets[k].values)))
            => /\ k \in StructuredAt
               /\ OutWorksheets[k] # Worksheets[k]
               /\ "values" \notin DOMAIN OutWorksheets[k]
               /\ OutWorksheets[k].topics = <<>>
               /\ OutWorksheets[k].statistics =
                      [totalTopics |-> 0, totalWords |-> 0, byFlag |-> ZeroByFlag]

\* a worksheet whose grid is a header row alone has been returned structured
C32_Witness ==
    /\ pc = "done"
    /\ Len(OutWorksheets) = 1
    /\ ~HasErrorMarker(Worksheets[1])
    /\ ~NoValues(Worksheets[1])
    /\ Len(Val(Worksheets[1].values)) = 1
    /\ HeaderLike(Val(Worksheets[1].values)[1])
    /\ CellText(Val(Worksheets[1].values)[1], 3) # <<>>
    /\ OutWorksheets[1].topics = <<>>
    /\ OutWorksheets[1].statistics.totalTopics = 0

\* C33: GET /api/sheet/data invokes the upstream fetch only in states where
\* isAuthenticated() is true, for every sheet of the request and under any
\* interleaving with POST /api/auth/start: whenever a fetch has been
\* invoked before the token's expiry, serverState held the token at the
\* invocation.
C33_FetchOnlyWhenAuthenticated ==
    (IsSome(server.req) /\ IsSome(Val(server.req).invoked)) =>
        LET invoked == Val(Val(server.req).invoked)
        IN  invoked.beforeExpiry => LiveToken(invoked)

\* the step answers the data request in progress
AnswersData ==
    /\ IsSome(server.req)
    /\ ~IsSome(server'.req)
    /\ IsSome(server'.response)
    /\ Val(server'.response).route = "GET /api/sheet/data"

\* C34: a force-refresh request checked on a server that is not
\* authenticated, all of whose sheets are in the cache, is answered 200 with
\* the cached worksheets and the message 'Authentication required to
\* refresh. Showing cached data.', not with a 401 error.
C34_UnauthenticatedRefreshShowsCache ==
    [][(/\ AnswersData
        /\ Val(server.req).forceRefresh
        /\ ~LiveToken(AuthState(server))
        /\ \A key \in RequestedKeys(Val(server.req)) : IsSome(server.cache[key]))
          => LET response == Val(server'.response)
             IN  /\ response.status = 200
                 /\ DOMAIN response.body
                        = {"worksheets", "cached", "sheets", "message"}
                 /\ response.body.message
                        = "Authentication required to refresh. Showing cached data."
                 /\ Len(response.body.worksheets) >= 1]_vars

\* C35: when the persisted state holds an unexpired token at the start of
\* the server, the token-refresh timer is started at startup without any
\* client request: once the state is loaded, and before any request is
\* received, tokenRefreshTimer is non-null.
C35_TimerStartedAtStartup ==
    (/\ server.handled = 0
     /\ server.load = "done"
     /\ IsSome(StoredToken(server))
     /\ LiveToken(AuthState(server)))
        => server.timer

\* two data requests have fetched different sheets of the same url and
\* finished saving them, and no POST /api/sheet/url was received
BothSaved(p, q) ==
    /\ p # q
    /\ server.post.pc = "idle"
    /\ server.saves[p].pc \in {"loadStats", "putStats", "done"}
    /\ server.saves[q].pc \in {"loadStats", "putStats", "done"}
    /\ server.saves[p].sheetName # server.saves[q].sheetName

\* C37: when two GET /api/sheet/data requests that fetch different sheets
\* run concurrently, the data cache holds the entries of both sheets after
\* both have saved: saveCache's load-modify-put never loses the other
\* request's update.
C37_BothEntriesSaved ==
    \A p, q \in 1..MaxSaves :
        BothSaved(p, q) =>
            /\ Entry(server.sheetUrl, server.saves[p].sheetName, p)
                   \in server.blobs["data"]
            /\ Entry(server.sheetUrl, server.saves[q].sheetName, q)
                   \in server.blobs["data"]

\* the entries of a cache that belong to other urls than the given one
OtherUrls(cache, sheetUrl) == {entry \in cache : entry[1] # sheetUrl}

\* C36: when POST /api/sheet/url with a url different from the current one
\* completes, the data cache, the statistics cache and the metadata cache
\* hold no entry of the old url; their entries of every other url are the
\* ones they held when the request was received (compared when no data
\* request has written in between).
C36_OldUrlCleared ==
    [][(server.post.pc = "saveState" /\ server'.post.pc = "done"
           /\ server.post.old # server.post.sheetUrl)
          => \A n \in 1..Len(CacheNames) :
                LET name == CacheNames[n]
                IN  /\ ~HasUrl(server'.blobs[name], server.post.old)
                    /\ (\A p \in 1..MaxSaves : server.saves[p].pc = "idle")
                          => OtherUrls(server'.blobs[name], server.post.old)
                               = OtherUrls(server.post.before[name],
                                           server.post.old)]_vars

=============================================================================
